---- MODULE Spec2Model ----
(***************************************************************************)
(* A model of the overlap-graph engine of the OLC assembler: the alignment *)
(* filter, the bidirected overlap graph and its cleanup passes             *)
(* (transitive reduction, short-edge pruning, bubble removal, small        *)
(* component removal, tip trimming).                                       *)
(*                                                                         *)
(* An oriented node id "<read><strand>" is the pair <<read, strand>>.      *)
(* OverlapGraph.nodes (a HashMap<String, Node>) is a function from the     *)
(* present node ids to the node's edges (a Vec<EdgeInfo>, a sequence).     *)
(* The iteration order of a HashMap is not fixed by the program: wherever  *)
(* a result depends on it the model takes every order.                     *)
(***************************************************************************)
EXTENDS Integers, Sequences, FiniteSets, TLC

VARIABLES
    g,      \* OverlapGraph.nodes: node id -> sequence of EdgeInfo
    g0,     \* the graph as it was before the last pass (history)
    pc,     \* position of the driver
    cfg,    \* the tunables of the run
    ret,    \* what the last pass returned / staged
    flt     \* state of the alignment filter

vars == <<g, g0, pc, cfg, ret, flt>>

-----------------------------------------------------------------------------
(* Generic helpers *)

Range(s) == {s[i] : i \in DOMAIN s}

Min(S) == CHOOSE x \in S : \A y \in S : x <= y

Max(S) == CHOOSE x \in S : \A y \in S : x >= y

Last(s) == s[Len(s)]

\* every ordering of a finite set, as sequences
RECURSIVE Orderings(_)
Orderings(S) ==
    IF S = {} THEN {<<>>}
    ELSE UNION {{<<x>> \o p : p \in Orderings(S \ {x})} : x \in S}

\* every function that picks, for each n, one element of out[n]
RECURSIVE Prod(_)
Prod(out) ==
    IF DOMAIN out = {} THEN {<<>>}
    ELSE LET n == CHOOSE n \in DOMAIN out : TRUE
             rest == Prod([m \in DOMAIN out \ {n} |-> out[m]])
         IN {(n :> c) @@ r : c \in out[n], r \in rest}

-----------------------------------------------------------------------------
(* Oriented nodes, edges, the overlap graph *)

Reads == {"R0", "R1", "R2", "R3", "R4", "R5", "Ra", "Rb", "Rc"}

Strands == {"+", "-"}

Nodes == Reads \X Strands

Plus(r) == <<r, "+">>

Minus(r) == <<r, "-">>

rc_node(id) == <<id[1], IF id[2] = "+" THEN "-" ELSE "+">>

EdgeInfo(t, el, ol, idn) ==
    [target_id |-> t, edge_len |-> el, overlap_len |-> ol, identity |-> idn]

Targets(edges) == {edges[i].target_id : i \in DOMAIN edges}

\* add_edge without the check for an edge to the same target
Node_add_edge_Unchecked(node, target_id, edge_len, overlap_len, identity) ==
    Append(node, EdgeInfo(target_id, edge_len, overlap_len, identity))

\* Node::add_edge: an edge to a target the node already points to is ignored
Node_add_edge(edges, t, el, ol, idn) ==
    IF t \in Targets(edges) THEN edges ELSE Append(edges, EdgeInfo(t, el, ol, idn))

\* Vec::swap_remove(pos): the last element takes the place of the removed one
swap_remove(edges, pos) ==
    LET n == Len(edges)
    IN [i \in 1..(n - 1) |-> IF i = pos THEN edges[n] ELSE edges[i]]

\* Node::remove_edge: remove the first edge to the target, if any
Node_remove_edge(edges, t) ==
    IF t \in Targets(edges)
    THEN swap_remove(edges, Min({i \in DOMAIN edges : edges[i].target_id = t}))
    ELSE edges

\* Node::sort_edges: sort_unstable_by_key(edge_len); the order of edges of
\* equal length is not fixed, so every ascending arrangement is an outcome
Node_sort_edges(edges) ==
    {[k \in DOMAIN edges |-> edges[p[k]]] :
        p \in {q \in Orderings(DOMAIN edges) :
                  \A k \in 1..(Len(edges) - 1) :
                      edges[q[k]].edge_len <= edges[q[k + 1]].edge_len}}

OverlapGraph_new == <<>>

OverlapGraph_add_node(G, id) == IF id \in DOMAIN G THEN G ELSE G @@ (id :> <<>>)

OverlapGraph_add_edge(G, from, to, el, ol, idn) ==
    [G EXCEPT ![from] = Node_add_edge(G[from], to, el, ol, idn)]

HasEdge(G, u, v) == u \in DOMAIN G /\ v \in Targets(G[u])

EdgeTo(G, u, v) == CHOOSE e \in Range(G[u]) : e.target_id = v

Arcs(G) == UNION {{<<u, v>> : v \in Targets(G[u])} : u \in DOMAIN G}

\* An Overlap: the forward edge source -> sink and its twin
\* rc_source -> rc_sink, as the graph builder inserts them
Overlap(src, snk, el, rcl, ol, idn) ==
    [source_name |-> src, sink_name |-> snk,
     rc_source_name |-> rc_node(snk), rc_sink_name |-> rc_node(src),
     edge_len |-> el, rc_edge_len |-> rcl, overlap_len |-> ol, identity |-> idn]

\* the builder's insertion for one proper overlap: the four oriented nodes,
\* then the forward edge and its reverse-complement counterpart
AddOverlap(G, ov) ==
    LET G1 == OverlapGraph_add_node(OverlapGraph_add_node(G, ov.source_name), ov.sink_name)
        G2 == OverlapGraph_add_edge(G1, ov.source_name, ov.sink_name,
                                    ov.edge_len, ov.overlap_len, ov.identity)
        G3 == OverlapGraph_add_node(OverlapGraph_add_node(G2, ov.rc_sink_name), ov.rc_source_name)
    IN OverlapGraph_add_edge(G3, ov.rc_source_name, ov.rc_sink_name,
                             ov.rc_edge_len, ov.overlap_len, ov.identity)

RECURSIVE BuildGraph(_, _)
BuildGraph(G, ovs) ==
    IF ovs = <<>> THEN G ELSE BuildGraph(AddOverlap(G, Head(ovs)), Tail(ovs))

\* check_synchronization, with the metrics the spec asks of the twin
Synchronized(G) ==
    /\ \A n \in DOMAIN G : rc_node(n) \in DOMAIN G
    /\ \A n \in DOMAIN G : \A e \in Range(G[n]) :
          /\ rc_node(e.target_id) \in DOMAIN G
          /\ \E t \in Range(G[rc_node(e.target_id)]) :
                /\ t.target_id = rc_node(n)
                /\ t.overlap_len = e.overlap_len
                /\ t.identity = e.identity

-----------------------------------------------------------------------------
(* Transitive reduction: transitive_edge_reduction.rs *)

\* step 3 of the main loop for n1, whose sorted outgoing edges are oe: each
\* neighbour n2 still in play eliminates the in-play nodes n3 it reaches within
\* longest. elim is the set of neighbours marked Eliminated so far; the
\* neighbours not in elim are InPlay and every other node is Vacant.
RECURSIVE ReduceStep3(_, _, _, _, _)
ReduceStep3(G, oe, longest, i, elim) ==
    IF i > Len(oe) THEN elim
    ELSE LET n2 == oe[i].target_id
             hit == IF n2 \notin elim /\ n2 \in DOMAIN G
                    THEN {e.target_id : e \in
                            {x \in Range(G[n2]) :
                                /\ x.edge_len + oe[i].edge_len <= longest
                                /\ x.target_id \in Targets(oe) \ elim}}
                    ELSE {}
         IN ReduceStep3(G, oe, longest, i + 1, elim \cup hit)

\* a reducer whose step 4 eliminates every neighbour of n1, a two-step path
\* or not
ReduceStep4_EveryNeighbour(G, oe, fuzz, elim) == Targets(oe)

\* step 4, the additional rule: an edge n2 -> n3 shorter than fuzz, or the
\* shortest outgoing edge of n2, eliminates n3 when n3 is in play
ReduceStep4(G, oe, fuzz, elim) ==
    elim \cup
    {n3 \in Targets(oe) \ elim :
        \E n2 \in Targets(oe) \cap DOMAIN G : \E e \in Range(G[n2]) :
            /\ e.target_id = n3
            /\ \/ e.edge_len < fuzz
               \/ e.edge_len = Min({x.edge_len : x \in Range(G[n2])})}

\* a reducer that eliminates nothing
Eliminated_None(G, n1, fuzz) == {}

\* the neighbours of n1 that end the main loop's iteration for n1 Eliminated
Eliminated(G, n1, fuzz) ==
    LET oe == G[n1]
    IN IF oe = <<>> THEN {}
       ELSE ReduceStep4(G, oe, fuzz,
                ReduceStep3(G, oe, oe[Len(oe)].edge_len + fuzz, 1, {}))

\* the reduced set: the (from, to) pairs staged for removal
Reduced(G, fuzz) ==
    UNION {{<<n1, n2>> : n2 \in Eliminated(G, n1, fuzz)} : n1 \in DOMAIN G}

\* step 6: what is removed from the edges of node `from`: its staged edges
\* and the reverse-complement counterparts of the staged edges
RemovalTargets(reduced, from) ==
    {p[2] : p \in {q \in reduced : q[1] = from}}
        \cup {rc_node(p[1]) : p \in {q \in reduced : rc_node(q[2]) = from}}

RECURSIVE RemoveInOrder(_, _)
RemoveInOrder(edges, ts) ==
    IF ts = <<>> THEN edges
    ELSE RemoveInOrder(Node_remove_edge(edges, Head(ts)), Tail(ts))

\* reduce_transitive_edges: every outcome of the call, as the graph it leaves
\* behind and the reduced set it staged. The edges of each node are sorted
\* first; the removals of one node happen in the order in which the node map
\* yields the staged edges.
reduce_transitive_edges(G, fuzz) ==
    UNION {
        LET reduced == Reduced(Gs, fuzz)
        IN {[graph |-> Gr, reduced |-> reduced] :
              Gr \in Prod([n \in DOMAIN Gs |->
                   {RemoveInOrder(Gs[n], ts) :
                       ts \in Orderings(RemovalTargets(reduced, n) \cap Targets(Gs[n]))}])}
        : Gs \in Prod([n \in DOMAIN G |-> Node_sort_edges(G[n])])}

-----------------------------------------------------------------------------
(* Tip trimming: tip_trimming.rs *)

\* the arcs of the graph, one per element of an edge vector: <<source, index>>
ArcSlots(G) == UNION {{<<u, i>> : i \in DOMAIN G[u]} : u \in DOMAIN G}

\* recompute_stats: preds[n], as the arcs that point to n
preds(G, n) == {a \in ArcSlots(G) : G[a[1]][a[2]].target_id = n}

indeg(G, n) == Cardinality(preds(G, n))

outdeg(G, n) == IF n \in DOMAIN G THEN Len(G[n]) ELSE 0

edge_mult(G, u, v) ==
    IF u \in DOMAIN G THEN Cardinality({i \in DOMAIN G[u] : G[u][i].target_id = v}) ELSE 0

\* remove_nodes: the nodes leave the map and the edges that point to them are
\* purged; the reverse complements of the nodes are not looked at
remove_nodes(G, to_remove) ==
    [n \in DOMAIN G \ to_remove |->
        SelectSeq(G[n], LAMBDA e : e.target_id \notin to_remove)]

\* a tail tip's walk backwards: at most steps more nodes, each the unique
\* predecessor of the previous one and non-branching
RECURSIVE WalkBack(_, _, _)
WalkBack(G, chain, steps) ==
    LET ps == preds(G, Last(chain))
        p == (CHOOSE a \in ps : TRUE)[1]
    IN IF steps = 0 \/ Cardinality(ps) # 1 THEN chain
       ELSE IF outdeg(G, p) = 1 /\ indeg(G, p) = 1
            THEN WalkBack(G, Append(chain, p), steps - 1)
            ELSE chain

\* a head tip's walk forwards
RECURSIVE WalkForward(_, _, _)
WalkForward(G, chain, steps) ==
    LET succs == IF Last(chain) \in DOMAIN G THEN G[Last(chain)] ELSE <<>>
        s == succs[1].target_id
    IN IF steps = 0 \/ Len(succs) # 1 THEN chain
       ELSE IF outdeg(G, s) = 1 /\ indeg(G, s) = 1
            THEN WalkForward(G, Append(chain, s), steps - 1)
            ELSE chain

\* the TipInfo of a candidate, if its chain has a junction
TipInfo(G, tip_node, is_tail, max_tip_nodes) ==
    LET chain == IF is_tail THEN WalkBack(G, <<tip_node>>, max_tip_nodes - 1)
                 ELSE WalkForward(G, <<tip_node>>, max_tip_nodes - 1)
        last == Last(chain)
        ps == preds(G, last)
        succs == IF last \in DOMAIN G THEN G[last] ELSE <<>>
        found == IF is_tail THEN Cardinality(ps) = 1 ELSE Len(succs) = 1
        junction == IF is_tail THEN (CHOOSE a \in ps : TRUE)[1] ELSE succs[1].target_id
    IN IF found /\ Len(chain) <= max_tip_nodes
       THEN {[tip_node |-> tip_node, is_tail |-> is_tail, chain |-> chain,
              junction |-> junction,
              junction_arc_mult |-> IF is_tail THEN edge_mult(G, junction, last)
                                    ELSE edge_mult(G, last, junction)]}
       ELSE {}

\* the candidates: the dead ends at out, else the dead ends at in
candidates_info(G, max_tip_nodes) ==
    UNION {IF outdeg(G, id) = 0 THEN TipInfo(G, id, TRUE, max_tip_nodes)
           ELSE IF indeg(G, id) = 0 THEN TipInfo(G, id, FALSE, max_tip_nodes)
           ELSE {} : id \in DOMAIN G}

\* the minority test at the junction: the arc junction -> chain is shorter than
\* 0.95 of the longest other outgoing arc, or some outgoing arc has a higher
\* multiplicity than the junction arc
IsEligible(G, info) ==
    /\ info.junction \in DOMAIN G
    /\ G[info.junction] # <<>>
    /\ LET jn == G[info.junction]
           hits == {i \in DOMAIN jn : jn[i].target_id = Last(info.chain)}
           junction_arc_len == IF hits = {} THEN 0 ELSE jn[Min(hits)].edge_len
           other_lens == {jn[i].edge_len : i \in DOMAIN jn \ hits}
       IN \/ /\ other_lens # {}
             /\ junction_arc_len > 0
             /\ junction_arc_len * 100 < Max(other_lens) * 95
          \/ \E i \in DOMAIN jn :
                edge_mult(G, info.junction, jn[i].target_id) > info.junction_arc_mult

\* one round of the main loop: the nodes of the chains of the eligible tips
\* that are still tips
removed_in_this_round(G, max_tip_nodes) ==
    UNION {Range(info.chain) :
        info \in {x \in candidates_info(G, max_tip_nodes) :
                     /\ IsEligible(G, x)
                     /\ Range(x.chain) \subseteq DOMAIN G
                     /\ IF x.is_tail THEN outdeg(G, x.tip_node) = 0
                        ELSE indeg(G, x.tip_node) = 0}}

\* a trimmer that stops after its first round
TrimLoop_OneRound(G, max_tip_nodes, total_removed) ==
    LET batch == removed_in_this_round(G, max_tip_nodes)
    IN [graph |-> remove_nodes(G, batch), removed |-> total_removed + Cardinality(batch)]

\* the main loop: rounds until one removes nothing
RECURSIVE TrimLoop(_, _, _)
TrimLoop(G, max_tip_nodes, total_removed) ==
    LET batch == removed_in_this_round(G, max_tip_nodes)
    IN IF batch = {} THEN [graph |-> G, removed |-> total_removed]
       ELSE TrimLoop(remove_nodes(G, batch), max_tip_nodes,
                     total_removed + Cardinality(batch))

\* trim_tips: the graph it leaves and the number of nodes it removed
trim_tips(G, max_tip_nodes) ==
    IF max_tip_nodes = 0 THEN [graph |-> G, removed |-> 0]
    ELSE TrimLoop(G, max_tip_nodes, 0)

-----------------------------------------------------------------------------
(* Bubble removal: bubble_removal.rs *)

\* An f64 that the pass computes is held exactly, as a fraction <<num, den>>
\* in lowest terms. EdgeInfo.identity is held in hundredths (99 is 0.99).
RECURSIVE Gcd(_, _)
Gcd(a, b) == IF b = 0 THEN a ELSE Gcd(b, a % b)

Frac(n, d) == <<n \div Gcd(n, d), d \div Gcd(n, d)>>

FracLess(x, y) == x[1] * y[2] < y[1] * x[2]

\* Option::None, for the parent of the start node
None == <<"none", "none">>

PathMetrics(rc, tot, avg) ==
    [read_count |-> rc, total_overlap_len |-> tot, avg_identity |-> avg]

\* the metrics of a path extended by one edge: one more read, the overlap
\* added, the identity averaged by overlap length (avg_identity in hundredths)
ExtendMetrics(m, edge) ==
    LET total == m.total_overlap_len + edge.overlap_len
        old_weight == total - edge.overlap_len
    IN PathMetrics(m.read_count + 1, total,
           IF old_weight > 0
           THEN Frac(m.avg_identity[1] * old_weight
                        + edge.identity * edge.overlap_len * m.avg_identity[2],
                     m.avg_identity[2] * total)
           ELSE <<edge.identity, 1>>)

\* the expansion of cur: each unseen target, in the order of the edge vector,
\* gets its parent, depth and metrics and joins the queue
RECURSIVE BfsExpand(_, _, _, _)
BfsExpand(b, cur, edges, i) ==
    IF i > Len(edges) THEN b
    ELSE LET e == edges[i]
             t == e.target_id
         IN IF t \in DOMAIN b.depth THEN BfsExpand(b, cur, edges, i + 1)
            ELSE BfsExpand([parent |-> b.parent @@ (t :> cur),
                            depth |-> b.depth @@ (t :> b.depth[cur] + 1),
                            metrics |-> b.metrics @@ (t :> ExtendMetrics(b.metrics[cur], e)),
                            q |-> Append(b.q, t)],
                           cur, edges, i + 1)

RECURSIVE BfsLoop(_, _, _)
BfsLoop(G, b, max_depth) ==
    IF b.q = <<>> THEN b
    ELSE LET cur == Head(b.q)
             b1 == [b EXCEPT !.q = Tail(b.q)]
         IN IF b.depth[cur] >= max_depth \/ cur \notin DOMAIN G
            THEN BfsLoop(G, b1, max_depth)
            ELSE BfsLoop(G, BfsExpand(b1, cur, G[cur], 1), max_depth)

\* bfs_limited: the parent, depth and metrics maps of the bounded search
bfs_limited(G, start, max_depth) ==
    BfsLoop(G, [parent |-> (start :> None), depth |-> (start :> 0),
                metrics |-> (start :> PathMetrics(1, 0, <<100, 1>>)),
                q |-> <<start>>],
            max_depth)

RECURSIVE PathRev(_, _)
PathRev(parent, path_rev) ==
    LET cur == Last(path_rev)
    IN IF cur \in DOMAIN parent /\ parent[cur] # None
       THEN PathRev(parent, Append(path_rev, parent[cur]))
       ELSE path_rev

\* reconstruct_path: start .. target along the parents, empty if the walk
\* back from target does not end at start
reconstruct_path(parent, start, target) ==
    LET path_rev == PathRev(parent, <<target>>)
        n == Len(path_rev)
    IN IF Last(path_rev) # start THEN <<>>
       ELSE [k \in 1..n |-> path_rev[n + 1 - k]]

\* a removal that forgets the reverse complements
remove_nodes_rc_unaware(G, to_remove) ==
    [graph |-> [n \in DOMAIN G \ to_remove |->
                   SelectSeq(G[n], LAMBDA e : e.target_id \notin to_remove)],
     removed |-> Cardinality(to_remove)]

\* remove_nodes_rc_aware: the nodes and their reverse complements leave the
\* map, the edges that point to them are purged
remove_nodes_rc_aware(G, to_remove) ==
    LET expanded == to_remove \cup {rc_node(id) : id \in to_remove}
    IN [graph |-> [n \in DOMAIN G \ expanded |->
                      SelectSeq(G[n], LAMBDA e : e.target_id \notin expanded)],
        removed |-> Cardinality(expanded)]

\* the composite score of a path:
\* total_overlap_len * 1.0 + avg_identity * 2.0 * 100.0 + read_count * 1.5
Score(m) ==
    Frac(2 * m.avg_identity[2] * m.total_overlap_len + 4 * m.avg_identity[1]
            + 3 * m.avg_identity[2] * m.read_count,
         2 * m.avg_identity[2])

\* the nodes one pair of branches (start_a, start_b) of u asks to remove when
\* they meet at meet_node; empty when the pair is skipped
LoserNodes(u, start_a, start_b, ba, bb, meet_node, min_support_ratio) ==
    LET path_a == reconstruct_path(ba.parent, start_a, meet_node)
        path_b == reconstruct_path(bb.parent, start_b, meet_node)
        depth_a == ba.depth[meet_node]
        depth_b == bb.depth[meet_node]
        score_a == Score(ba.metrics[meet_node])
        score_b == Score(bb.metrics[meet_node])
        a_wins == FracLess(score_b, score_a) \/ (score_a = score_b /\ depth_a < depth_b)
        b_wins == FracLess(score_a, score_b) \/ (score_a = score_b /\ depth_b < depth_a)
        loser_path == IF a_wins THEN path_b ELSE path_a
        winner_score == IF a_wins THEN score_a ELSE score_b
        loser_score == IF FracLess(score_b, score_a) THEN score_b ELSE score_a
        stop == Min({k \in DOMAIN loser_path : loser_path[k] = meet_node})
    IN IF path_a = <<>> \/ path_b = <<>> THEN {}
       ELSE IF score_a[1] = 0 /\ score_b[1] = 0 THEN {}
       ELSE IF ~a_wins /\ ~b_wins THEN {}
       ELSE IF loser_score[1] * min_support_ratio[1] * winner_score[2]
                  > winner_score[1] * min_support_ratio[2] * loser_score[2] THEN {}
       ELSE {loser_path[k] : k \in 1..(stop - 1)} \ {u}

\* what one pair asks to remove: one answer for each meeting node of minimal
\* combined depth (the sort of the meetings is unstable and they come out of
\* a HashSet); the empty set when the pair is skipped
PairRemovals(G, u, start_a, start_b, max_bubble_len, min_support_ratio) ==
    LET ba == bfs_limited(G, start_a, max_bubble_len)
        bb == bfs_limited(G, start_b, max_bubble_len)
        reached == DOMAIN ba.depth \cap DOMAIN bb.depth
        d(n) == ba.depth[n] + bb.depth[n]
        best == {n \in reached : \A o \in reached : d(n) <= d(o)}
    IN IF start_a = start_b \/ reached = {} THEN {{}}
       ELSE {LoserNodes(u, start_a, start_b, ba, bb, n, min_support_ratio) : n \in best}

\* the loops over the pairs (i, j) of the neighbours of u, taken when u was
\* reached: a removal ends the loop over j, and the loop over i goes on.
\* examined lists the pairs the searches were run for, with their node u and
\* whether nodes were removed for the pair.
RECURSIVE PairLoop(_, _, _, _, _, _, _, _, _)
PairLoop(G, u, outs, i, j, total, examined, max_bubble_len, min_support_ratio) ==
    IF i > Len(outs) THEN {[graph |-> G, removed |-> total, examined |-> examined]}
    ELSE IF j > Len(outs)
    THEN PairLoop(G, u, outs, i + 1, i + 2, total, examined,
                  max_bubble_len, min_support_ratio)
    ELSE UNION {
        LET seen == IF outs[i] = outs[j] THEN examined
                    ELSE Append(examined, [u |-> u, start_a |-> outs[i],
                                           start_b |-> outs[j],
                                           removed |-> to_remove # {}])
        IN IF to_remove = {}
           THEN PairLoop(G, u, outs, i, j + 1, total, seen,
                         max_bubble_len, min_support_ratio)
           ELSE LET r == remove_nodes_rc_aware(G, to_remove)
                IN PairLoop(r.graph, u, outs, i + 1, i + 2, total + r.removed, seen,
                            max_bubble_len, min_support_ratio)
        : to_remove \in PairRemovals(G, u, outs[i], outs[j],
                                     max_bubble_len, min_support_ratio)}

\* the loop over the snapshot of the node keys
RECURSIVE KeysLoop(_, _, _, _, _, _, _)
KeysLoop(G, node_keys, k, total, examined, max_bubble_len, min_support_ratio) ==
    IF k > Len(node_keys) THEN {[graph |-> G, removed |-> total, examined |-> examined]}
    ELSE LET u == node_keys[k]
         IN IF u \notin DOMAIN G \/ Len(G[u]) < 2
            THEN KeysLoop(G, node_keys, k + 1, total, examined,
                          max_bubble_len, min_support_ratio)
            ELSE UNION {
                KeysLoop(o.graph, node_keys, k + 1, o.removed, o.examined,
                         max_bubble_len, min_support_ratio)
                : o \in PairLoop(G, u, [x \in DOMAIN G[u] |-> G[u][x].target_id],
                                 1, 2, total, examined,
                                 max_bubble_len, min_support_ratio)}

\* remove_bubbles: every outcome of the call. The keys come in the order of
\* the node map; a key whose node has fewer than two edges when the call
\* starts is skipped whenever it comes (edges are only ever removed), so the
\* orders of the other keys are all the orders there are.
remove_bubbles(G, max_bubble_len, min_support_ratio) ==
    IF max_bubble_len = 0 THEN {[graph |-> G, removed |-> 0, examined |-> <<>>]}
    ELSE UNION {KeysLoop(G, node_keys, 1, 0, <<>>, max_bubble_len, min_support_ratio)
                : node_keys \in Orderings({n \in DOMAIN G : Len(G[n]) >= 2})}

-----------------------------------------------------------------------------
(* Short-edge pruning: heuristic_simplification.rs *)

\* (max_overlap as f64 * drop_ratio + 0.499) as u32, drop_ratio = <<num, den>>
ShortThreshold(max_overlap, drop_ratio) ==
    (max_overlap * drop_ratio[1] * 1000 + 499 * drop_ratio[2])
        \div (1000 * drop_ratio[2])

\* edges_to_remove: the targets of the edges below the threshold, in the
\* order of the edge vector
edges_to_remove(edges, drop_ratio) ==
    LET max_overlap == Max({edges[i].overlap_len : i \in DOMAIN edges})
        short == SelectSeq(edges,
                     LAMBDA e : e.overlap_len < ShortThreshold(max_overlap, drop_ratio))
    IN [i \in DOMAIN short |-> short[i].target_id]

\* the removal of the short edges of node_id: each edge node_id -> target,
\* and with it the edge target -> node_id
RECURSIVE RemoveShort(_, _, _)
RemoveShort(G, node_id, targets) ==
    IF targets = <<>> THEN G
    ELSE LET target_id == Head(targets)
             G1 == [G EXCEPT ![node_id] = Node_remove_edge(G[node_id], target_id)]
             G2 == IF target_id \in DOMAIN G1
                   THEN [G1 EXCEPT ![target_id] = Node_remove_edge(G1[target_id], node_id)]
                   ELSE G1
         IN RemoveShort(G2, node_id, Tail(targets))

RECURSIVE ShortKeysLoop(_, _, _, _)
ShortKeysLoop(G, keys, k, drop_ratio) ==
    IF k > Len(keys) THEN G
    ELSE LET node_id == keys[k]
         IN IF Len(G[node_id]) < 2 THEN ShortKeysLoop(G, keys, k + 1, drop_ratio)
            ELSE ShortKeysLoop(
                     RemoveShort(G, node_id, edges_to_remove(G[node_id], drop_ratio)),
                     keys, k + 1, drop_ratio)

\* remove_short_edges: every outcome of the call. The keys come in the order
\* of the node map; a key whose node has fewer than two edges when the call
\* starts is skipped whenever it comes, as edges are only ever removed.
remove_short_edges(G, drop_ratio) ==
    {ShortKeysLoop(G, keys, 1, drop_ratio)
        : keys \in Orderings({n \in DOMAIN G : Len(G[n]) >= 2})}

-----------------------------------------------------------------------------
(* Small-component removal: graph_analysis.rs and the driver in main.rs *)

\* the undirected adjacency list has an entry for every node of the map and
\* for every target of an edge
Vertices(G) == DOMAIN G \cup UNION {Targets(G[n]) : n \in DOMAIN G}

Neighbours(G, S) ==
    UNION {Targets(G[n]) : n \in S \cap DOMAIN G}
        \cup {n \in DOMAIN G : Targets(G[n]) \cap S # {}}

RECURSIVE Component(_, _)
Component(G, S) ==
    IF Neighbours(G, S) \subseteq S THEN S ELSE Component(G, S \cup Neighbours(G, S))

weakly_connected_components(G) == {Component(G, {n}) : n \in Vertices(G)}

\* the driver removes the components of fewer than four nodes
MinComponentSize == 4

\* the removal that also takes the components of exactly the minimum size
remove_small_components_Inclusive(G) ==
    LET comp_nodes_to_remove ==
            UNION {c \in weakly_connected_components(G) : Cardinality(c) <= MinComponentSize}
        gone == comp_nodes_to_remove \cup {rc_node(n) : n \in comp_nodes_to_remove}
    IN [graph |-> [n \in DOMAIN G \ gone |-> G[n]],
        removed |-> Cardinality(comp_nodes_to_remove)]

\* the nodes of the small components and their reverse complements leave the
\* map; no edge is touched
remove_small_components(G) ==
    LET comp_nodes_to_remove ==
            UNION {c \in weakly_connected_components(G) : Cardinality(c) < MinComponentSize}
        gone == comp_nodes_to_remove \cup {rc_node(n) : n \in comp_nodes_to_remove}
    IN [graph |-> [n \in DOMAIN G \ gone |-> G[n]],
        removed |-> Cardinality(comp_nodes_to_remove)]

-----------------------------------------------------------------------------
(* Unitig compression: compress_graph.rs *)

\* String::new(), the target of the last member of a unitig
EmptyId == <<"", "">>

UnitigMember(id, target, el) == [node_id |-> id, edge |-> <<target, el>>]

Unitig(uid, members, seq) == [id |-> uid, members |-> members, fasta_seq |-> seq]

\* out_single: the single outgoing edge of cur as <<target, edge_len>>, or <<>>
out_single(G, cur) ==
    IF cur \in DOMAIN G /\ Len(G[cur]) = 1
    THEN <<G[cur][1].target_id, G[cur][1].edge_len>>
    ELSE <<>>

\* a walk forward that does not look at the in-degree of the next node
RECURSIVE ExtendForward_AnyIndegree(_, _, _, _)
ExtendForward_AnyIndegree(G, visited, members, cur) ==
    LET os == out_single(G, cur)
    IN IF os = <<>> \/ os[1] \in visited
       THEN [visited |-> visited, members |-> members, cur |-> cur]
       ELSE ExtendForward_AnyIndegree(G, visited \cup {os[1]},
                Append(members, UnitigMember(cur, os[1], os[2])), os[1])

\* the walk forward from cur, the second node of a unitig: cur joins the
\* members when its single successor has in-degree 1 and is not yet visited
RECURSIVE ExtendForward(_, _, _, _)
ExtendForward(G, visited, members, cur) ==
    LET os == out_single(G, cur)
    IN IF os = <<>> \/ indeg(G, os[1]) # 1 \/ os[1] \in visited
       THEN [visited |-> visited, members |-> members, cur |-> cur]
       ELSE ExtendForward(G, visited \cup {os[1]},
                          Append(members, UnitigMember(cur, os[1], os[2])), os[1])

\* the unitigs started at id, one try per outgoing edge; a try whose second
\* node has in-degree other than 1 or is visited already leaves no unitig
RECURSIVE StartUnitigs(_, _, _, _, _)
StartUnitigs(G, id, out_edge_i, visited, unitigs) ==
    IF out_edge_i > Len(G[id]) THEN [visited |-> visited, unitigs |-> unitigs]
    ELSE LET second == G[id][out_edge_i].target_id
             first == UnitigMember(id, second, G[id][out_edge_i].edge_len)
             seen == visited \cup {id}
         IN IF indeg(G, second) # 1 \/ second \in seen
            THEN StartUnitigs(G, id, out_edge_i + 1, seen, unitigs)
            ELSE LET w == ExtendForward(G, seen \cup {second}, <<first>>, second)
                     members == Append(w.members, UnitigMember(w.cur, EmptyId, 0))
                 IN StartUnitigs(G, id, out_edge_i + 1, w.visited,
                                 Append(unitigs, Unitig(Len(unitigs), members, <<>>)))

\* a walk of step 3 that records no edge length
RECURSIVE CircularWalk_NoEdgeLen(_, _, _, _)
CircularWalk_NoEdgeLen(G, visited, members, cur) ==
    LET os == out_single(G, cur)
        seen == visited \cup {cur}
    IN IF os = <<>> THEN [visited |-> seen, members |-> members]
       ELSE LET pushed == Append(members, UnitigMember(cur, os[1], 0))
            IN IF indeg(G, os[1]) # 1 \/ os[1] \in seen
               THEN [visited |-> seen, members |-> pushed]
               ELSE CircularWalk_NoEdgeLen(G, seen, pushed, os[1])

\* the walk of step 3 from cur
RECURSIVE CircularWalk(_, _, _, _)
CircularWalk(G, visited, members, cur) ==
    LET os == out_single(G, cur)
        seen == visited \cup {cur}
    IN IF os = <<>> THEN [visited |-> seen, members |-> members]
       ELSE LET pushed == Append(members, UnitigMember(cur, os[1], os[2]))
            IN IF indeg(G, os[1]) # 1 \/ os[1] \in seen
               THEN [visited |-> seen, members |-> pushed]
               ELSE CircularWalk(G, seen, pushed, os[1])

\* step 3: every node still unvisited starts a unitig. The nodes come in the
\* order of the node map, so every unvisited node may be the next to come.
RECURSIVE CircularUnitigs(_, _, _)
CircularUnitigs(G, visited, unitigs) ==
    IF DOMAIN G \subseteq visited THEN {unitigs}
    ELSE UNION {
        LET w == CircularWalk(G, visited, <<>>, id)
        IN CircularUnitigs(G, w.visited,
                           Append(unitigs, Unitig(Len(unitigs), w.members, <<>>)))
        : id \in DOMAIN G \ visited}

\* step 2: a node with in-degree or out-degree other than 1 starts unitigs
\* when it comes unvisited. A node without outgoing edges starts nothing and
\* is not marked, so only the order of the others matters.
RECURSIVE NonCircularUnitigs(_, _, _)
NonCircularUnitigs(G, visited, unitigs) ==
    LET starts == {id \in DOMAIN G \ visited :
                      (indeg(G, id) # 1 \/ Len(G[id]) # 1) /\ Len(G[id]) > 0}
    IN IF starts = {} THEN CircularUnitigs(G, visited, unitigs)
       ELSE UNION {
           LET s == StartUnitigs(G, id, 1, visited, unitigs)
           IN NonCircularUnitigs(G, s.visited, s.unitigs)
           : id \in starts}

\* node_to_unitig: the last unitig that lists the node among its members
node_to_unitig(unitigs, n) ==
    LET us == {k \in DOMAIN unitigs :
                  \E i \in DOMAIN unitigs[k].members : unitigs[k].members[i].node_id = n}
    IN IF us = {} THEN -1 ELSE unitigs[Max(us)].id

\* the edges between unitigs: per pair of unitigs the smallest edge_len, the
\* largest overlap_len and the best identity of the edges that join them
UnitigEdges(G, unitigs) ==
    LET joins == {a \in ArcSlots(G) :
                     /\ node_to_unitig(unitigs, a[1]) # -1
                     /\ node_to_unitig(unitigs, G[a[1]][a[2]].target_id) # -1
                     /\ node_to_unitig(unitigs, a[1])
                           # node_to_unitig(unitigs, G[a[1]][a[2]].target_id)}
        key(a) == <<node_to_unitig(unitigs, a[1]),
                    node_to_unitig(unitigs, G[a[1]][a[2]].target_id)>>
        of(k) == {G[a[1]][a[2]] : a \in {x \in joins : key(x) = k}}
    IN {[from |-> k[1], to |-> k[2],
         edge_len |-> Min({e.edge_len : e \in of(k)}),
         overlap_len |-> Max({e.overlap_len : e \in of(k)}),
         identity |-> Max({e.identity : e \in of(k)})] : k \in {key(a) : a \in joins}}

\* the reverse complement of a nucleotide sequence (utils::rev_comp)
Complement(b) ==
    CASE b = "A" -> "T" [] b = "T" -> "A" [] b = "C" -> "G" [] b = "G" -> "C" [] OTHER -> b

rev_comp(seq) == [i \in 1..Len(seq) |-> Complement(seq[Len(seq) + 1 - i])]

Ok(v) == [ok |-> TRUE, value |-> v]

Err == [ok |-> FALSE]

\* get_seq: the sequence of an oriented node, or an error when the node is not
\* in the graph or its read is not in the FASTQ map
get_seq(G, fastq_seqs, node_id) ==
    IF node_id \notin DOMAIN G THEN Err
    ELSE IF node_id[1] \notin DOMAIN fastq_seqs THEN Err
    ELSE IF node_id[2] = "+" THEN Ok(fastq_seqs[node_id[1]])
    ELSE IF node_id[2] = "-" THEN Ok(rev_comp(fastq_seqs[node_id[1]]))
    ELSE Err

\* the loop of unitig_sequence over the members from index i on, out being
\* the sequence built so far
RECURSIVE AppendMembers(_, _, _, _, _)
AppendMembers(G, fastq_seqs, members, i, out) ==
    IF i > Len(members) THEN Ok(out)
    ELSE LET member == members[i]
             seq == get_seq(G, fastq_seqs, member.node_id)
         IN IF ~seq.ok THEN Err
            ELSE IF member.edge[1] = EmptyId
            THEN AppendMembers(G, fastq_seqs, members, i + 1, out \o seq.value)
            ELSE IF member.edge[2] > Len(seq.value) THEN Err
            ELSE AppendMembers(G, fastq_seqs, members, i + 1,
                               out \o SubSeq(seq.value, 1, member.edge[2]))

\* a reconstruction that appends the whole sequence of every member
unitig_sequence_WholeMembers(unitig, G, fastq_seqs) ==
    AppendMembers(G, fastq_seqs,
        [i \in DOMAIN unitig.members |->
            UnitigMember(unitig.members[i].node_id, EmptyId, 0)], 1, <<>>)

unitig_sequence(unitig, G, fastq_seqs) ==
    AppendMembers(G, fastq_seqs, unitig.members, 1, <<>>)

\* the second half of compress_unitigs: the sequence of each unitig is
\* unwrapped, so the first error ends the program before the FASTA file is
\* created; otherwise one FASTA record per unitig is written
CompressedGraphOf(G, fastq_seqs, unitigs) ==
    LET seqs == [k \in DOMAIN unitigs |-> unitig_sequence(unitigs[k], G, fastq_seqs)]
    IN IF \E k \in DOMAIN unitigs : ~seqs[k].ok
       THEN [status |-> "panic", unitigs |-> <<>>, edges |-> {}, fasta |-> <<>>]
       ELSE LET done == [k \in DOMAIN unitigs |->
                            [unitigs[k] EXCEPT !.fasta_seq = seqs[k].value]]
            IN [status |-> "ok", unitigs |-> done, edges |-> UnitigEdges(G, done),
                fasta |-> [k \in DOMAIN done |->
                              [id |-> done[k].id, len |-> Len(done[k].members),
                               seq |-> done[k].fasta_seq]]]

\* compress_unitigs: every outcome of the call
compress_unitigs(G, fastq_seqs) ==
    {CompressedGraphOf(G, fastq_seqs, unitigs) : unitigs \in NonCircularUnitigs(G, {}, <<>>)}

-----------------------------------------------------------------------------
(* The alignment filter: alignment_filtering.rs *)

\* a read is known by its name; the dense id the filter assigns on first sight
\* names the same read
Read(len, cend) ==
    [length |-> len, per_base_coverage |-> [i \in 0..(len - 1) |-> 0],
     coverage_start |-> 0, coverage_end |-> cend]

Alignment(qn, ql, qs, qe, st, tn, tl, ts, te, nm, bl) ==
    [query_name |-> qn, query_length |-> ql, query_start |-> qs, query_end |-> qe,
     strand |-> st, target_name |-> tn, target_length |-> tl, target_start |-> ts,
     target_end |-> te, num_matching |-> nm, alignment_block_length |-> bl]

is_self_alignment(r) == r.query_name = r.target_name

\* percent_identity is num_matching / alignment_block_length * 100; it is kept
\* as the fraction <<num_matching * 100, alignment_block_length>>
percent_identity(r) == <<r.num_matching * 100, r.alignment_block_length>>

\* percent_identity < min_percent_identity, the block length being positive
IdentityBelow(idn, min_percent_identity) == idn[1] < min_percent_identity * idn[2]

Min2(a, b) == IF a <= b THEN a ELSE b

Max2(a, b) == IF a >= b THEN a ELSE b

\* the cast `as u32` of an i64: a value in 0 .. 2^31 - 1 is kept; a negative
\* value x wraps to 2^32 + x, which is held 2^31 lower, as 2^31 + x, because
\* the integers of the checker end at 2^31 - 1 (the coordinates of the model
\* are far below that, so a wrapped value is never mistaken for a length)
AsU32(x) == IF x >= 0 THEN x ELSE 2147483647 + (x + 1)

\* the cast `as u32` of an f64 holding an integer below 2^32: a negative
\* value becomes 0
F64AsU32(x) == IF x < 0 THEN 0 ELSE x

\* (overlap_length * overhang_ratio).ceil(), overhang_ratio = ratio[1] / ratio[2]
\* with ratio[2] a power of two, so that the f64 product is exact
CeilOfProduct(x, ratio) == 0 - ((0 - x * ratio[1]) \div ratio[2])

other_strand(st) == IF st = "+" THEN "-" ELSE "+"

\* a filter that stores a proper overlap whatever its raw edge lengths
OrigLensPositive_Unchecked(edge1_len_orig, edge2_len_orig) == TRUE

\* an overlap is stored only if both raw edge lengths are positive
OrigLensPositive(edge1_len_orig, edge2_len_orig) ==
    edge1_len_orig > 0 /\ edge2_len_orig > 0

\* classify_alignment: the AlignmentType it returns and the Overlap it inserts
\* under (query, target), if any
classify_alignment(r, reads, overhang_ratio, min_overlap_length) ==
    LET rq == reads[r.query_name]
        rt == reads[r.target_name]
        query_start == Max2(r.query_start, rq.coverage_start)
        query_end == Min2(r.query_end, rq.coverage_end)
        target_start == Max2(r.target_start, rt.coverage_start)
        target_end == Min2(r.target_end, rt.coverage_end)
        query_length == rq.coverage_end - rq.coverage_start
        target_length == rt.coverage_end - rt.coverage_start
        b1_orig == r.query_start
        e1_orig == r.query_end
        l1_orig == r.query_length
        b2_orig == IF r.strand = "+" THEN r.target_start ELSE r.target_length - r.target_end
        e2_orig == IF r.strand = "+" THEN r.target_end ELSE r.target_length - r.target_start
        l2_orig == r.target_length
        b1 == query_start
        e1 == query_end
        l1 == query_length
        b2 == IF r.strand = "+" THEN target_start ELSE target_length - target_end
        e2 == IF r.strand = "+" THEN target_end ELSE target_length - target_start
        l2 == target_length
        overhang_left == Min2(b1, b2)
        overhang_right == Min2(l1 - e1, l2 - e2)
        overhang == overhang_left + overhang_right
        overlap_length1 == e1 - b1
        overlap_length2 == e2 - b2
        overlap_length == Max2(overlap_length1, overlap_length2)
        allowed_overhang == CeilOfProduct(overlap_length, overhang_ratio)
        first_contained == b1 <= b2 /\ (l1 - e1) <= (l2 - e2)
        second_contained == b1 >= b2 /\ (l1 - e1) >= (l2 - e2)
        q_plus == <<r.query_name, "+">>
        q_minus == <<r.query_name, "-">>
        t_orient == <<r.target_name, r.strand>>
        t_rc == <<r.target_name, other_strand(r.strand)>>
        identity == percent_identity(r)
        edge1_len_orig == IF b1 > b2 THEN b1_orig - b2_orig ELSE b2_orig - b1_orig
        edge2_len_orig == IF b1 > b2 THEN (l2_orig - e2_orig) - (l1_orig - e1_orig)
                          ELSE (l1_orig - e1_orig) - (l2_orig - e2_orig)
        edge1_len == IF b1 > b2 THEN b1 - b2 ELSE b2 - b1
        edge2_len == IF b1 > b2 THEN (l2 - e2) - (l1 - e1) ELSE (l1 - e1) - (l2 - e2)
        ov == [source_name |-> IF b1 > b2 THEN q_plus ELSE t_orient,
               rc_sink_name |-> IF b1 > b2 THEN q_minus ELSE t_rc,
               sink_name |-> IF b1 > b2 THEN t_orient ELSE q_plus,
               rc_source_name |-> IF b1 > b2 THEN t_rc ELSE q_minus,
               edge_len |-> AsU32(edge1_len),
               edge_len_orig |-> AsU32(edge1_len_orig),
               rc_edge_len |-> AsU32(edge2_len),
               rc_edge_len_orig |-> AsU32(edge2_len_orig),
               overlap_len |-> F64AsU32(overlap_length),
               identity |-> identity]
    IN IF overhang > allowed_overhang
           THEN [type |-> "InternalMatch", inserted |-> <<>>]
       ELSE IF first_contained
           THEN [type |-> "FirstContained", inserted |-> <<>>]
       ELSE IF second_contained
           THEN [type |-> "SecondContained", inserted |-> <<>>]
       ELSE IF \/ overlap_length1 + overhang_left + overhang_right < min_overlap_length
               \/ overlap_length2 + overhang_left + overhang_right < min_overlap_length
           THEN [type |-> "Filtered", inserted |-> <<>>]
       ELSE [type |-> "ProperOverlap",
             inserted |-> IF OrigLensPositive(edge1_len_orig, edge2_len_orig)
                          THEN <<ov>> ELSE <<>>]

\* per_base_coverage[start .. end] += 1
BumpCoverage(cov, start, end) ==
    [i \in DOMAIN cov |-> IF start <= i /\ i < end THEN cov[i] + 1 ELSE cov[i]]

\* the store of a record that forgets the entry kept under the reversed key
StoreAlignment_ReversedKept(al, known, record) ==
    LET q == record.query_name
        t == record.target_name
    IN IF <<q, t>> \in DOMAIN al
          /\ record.alignment_block_length <= al[<<q, t>>].alignment_block_length
       THEN al
       ELSE (<<q, t>> :> record) @@ [x \in DOMAIN al \ {<<q, t>>} |-> al[x]]

\* filter_paf, the alignment kept per read pair: the first record of a pair is
\* stored under (query, target); a later one replaces the stored one, under
\* whichever of the two keys it is, only when its block is strictly longer
StoreAlignment(al, known, record) ==
    LET q == record.query_name
        t == record.target_name
        drop(k) == [x \in DOMAIN al \ {k} |-> al[x]]
    IN IF ~ known THEN (<<q, t>> :> record) @@ al
       ELSE IF <<q, t>> \in DOMAIN al
            THEN IF record.alignment_block_length > al[<<q, t>>].alignment_block_length
                 THEN (<<q, t>> :> record) @@ drop(<<q, t>>)
                 ELSE al
       ELSE IF <<t, q>> \in DOMAIN al
            THEN IF record.alignment_block_length > al[<<t, q>>].alignment_block_length
                 THEN (<<q, t>> :> record) @@ drop(<<t, q>>)
                 ELSE al
       ELSE al

\* filter_paf, the body of the loop over the records: the ingestion filters,
\* the reads seen for the first time, the alignment kept per read pair, the
\* coverage of the two aligned spans
IngestRecord(f, record, c) ==
    LET q == record.query_name
        t == record.target_name
        reads1 == IF q \in DOMAIN f.reads THEN f.reads
                  ELSE f.reads @@ (q :> Read(record.query_length, record.query_length))
        reads2 == IF t \in DOMAIN reads1 THEN reads1
                  ELSE reads1 @@ (t :> Read(record.target_length, record.query_length))
        ids1 == [n \in DOMAIN reads2 |->
                    IF n \in DOMAIN f.alignment_ids_per_read
                    THEN f.alignment_ids_per_read[n] ELSE {}]
        known == t \in ids1[q]
        ids2 == IF known THEN ids1
                ELSE [ids1 EXCEPT ![q] = @ \cup {t}, ![t] = @ \cup {q}]
        alignments1 == StoreAlignment(f.alignments, known, record)
        reads3 == [reads2 EXCEPT ![q].per_base_coverage =
                      BumpCoverage(@, record.query_start, record.query_end)]
        reads4 == [reads3 EXCEPT ![t].per_base_coverage =
                      BumpCoverage(@, record.target_start, record.target_end)]
    IN IF is_self_alignment(record) THEN f
       ELSE IF \/ record.query_end - record.query_start < c.min_overlap_length
               \/ record.target_end - record.target_start < c.min_overlap_length
            THEN f
       ELSE IF IdentityBelow(percent_identity(record), c.min_percent_identity) THEN f
       ELSE [f EXCEPT !.reads = reads4, !.alignment_ids_per_read = ids2,
                      !.alignments = alignments1]

\* phase 2, the scan of one read's coverage: the runs of consecutive positions
\* whose coverage exceeds min_overlap_count, as [start, end) pairs
CoverageRuns(cov, min_overlap_count) ==
    LET above == {i \in DOMAIN cov : cov[i] > min_overlap_count}
        starts == {i \in above : (i - 1) \notin above}
    IN {<<s, Min({j \in (s + 1)..(Max(DOMAIN cov) + 1) : j \notin above})>> : s \in starts}

\* the window the scan ends with: best is replaced only by a strictly longer
\* run, so it is the first of the longest runs, and (0, 0) when there is none
CoverageWindow(read, min_overlap_count) ==
    LET runs == CoverageRuns(read.per_base_coverage, min_overlap_count)
        best_len == Max({w[2] - w[1] : w \in runs})
        best == IF runs = {} THEN <<0, 0>>
                ELSE CHOOSE w \in runs :
                        /\ w[2] - w[1] = best_len
                        /\ \A x \in runs : x[2] - x[1] = best_len => w[1] <= x[1]
    IN [read EXCEPT !.coverage_start = best[1], !.coverage_end = best[2]]

\* phase 3: every kept alignment is classified; the proper overlaps are stored
\* under the alignment's key and the contained reads are collected
ClassifyAll(f, c) ==
    LET out == [k \in DOMAIN f.alignments |->
                   classify_alignment(f.alignments[k], f.reads, c.overhang_ratio,
                                      c.min_overlap_length)]
        stored == {k \in DOMAIN out : out[k].inserted # <<>>}
    IN [f EXCEPT
          !.overlaps = [k \in stored |-> out[k].inserted[1]],
          !.contained_reads =
              {k[1] : k \in {x \in DOMAIN out : out[x].type = "FirstContained"}}
                  \cup {k[2] : k \in {x \in DOMAIN out : out[x].type = "SecondContained"}}]

\* a post-filter that keeps the overlaps of contained reads
PostFilter_LowCoverageOnly(f, c) ==
    LET low_coverage_reads ==
            {n \in DOMAIN f.reads :
                (IF f.reads[n].length = 0 THEN 0
                 ELSE Max(Range(f.reads[n].per_base_coverage))) < c.min_overlap_count}
        kept2 == {k \in DOMAIN f.overlaps :
                     k[1] \notin low_coverage_reads /\ k[2] \notin low_coverage_reads}
    IN [f EXCEPT !.overlaps = [k \in kept2 |-> f.overlaps[k]]]

\* the overlaps of contained reads go, then the overlaps of the reads whose
\* highest coverage is below min_overlap_count
PostFilter(f, c) ==
    LET kept1 == {k \in DOMAIN f.overlaps :
                     k[1] \notin f.contained_reads /\ k[2] \notin f.contained_reads}
        low_coverage_reads ==
            {n \in DOMAIN f.reads :
                (IF f.reads[n].length = 0 THEN 0
                 ELSE Max(Range(f.reads[n].per_base_coverage))) < c.min_overlap_count}
        kept2 == {k \in kept1 : k[1] \notin low_coverage_reads /\ k[2] \notin low_coverage_reads}
    IN [f EXCEPT !.overlaps = [k \in kept2 |-> f.overlaps[k]]]

-----------------------------------------------------------------------------
(* The graph builder: create_overlap_graph.rs *)

OverlapGraphStats(i, f, s, p) ==
    [nr_internal_match |-> i, nr_first_contained |-> f,
     nr_second_contained |-> s, nr_proper_overlaps |-> p]

\* num_matching / alignment_block_length in hundredths, 0 when the block is
\* empty (exact when the block length divides 100 * num_matching)
BlockIdentity(r) ==
    IF r.alignment_block_length = 0 THEN 0
    ELSE (r.num_matching * 100) \div r.alignment_block_length

\* a builder that leaves out the reverse-complement counterpart of an edge
\* whose length is 1
AddProperOverlap_NoShortTwin(G, from, to, edge1_len, rc_from, rc_to, edge2_len, ol, idn) ==
    LET G1 == OverlapGraph_add_node(OverlapGraph_add_node(G, from), to)
        G2 == IF edge1_len >= 0 THEN OverlapGraph_add_edge(G1, from, to, edge1_len, ol, idn)
              ELSE G1
        G3 == OverlapGraph_add_node(OverlapGraph_add_node(G2, rc_from), rc_to)
    IN IF edge2_len > 1 THEN OverlapGraph_add_edge(G3, rc_from, rc_to, edge2_len, ol, idn)
       ELSE G3

\* the insertion for one proper overlap: the two nodes of the edge, the edge
\* when its length is not negative, then the same for the counterpart
AddProperOverlap(G, from, to, edge1_len, rc_from, rc_to, edge2_len, ol, idn) ==
    LET G1 == OverlapGraph_add_node(OverlapGraph_add_node(G, from), to)
        G2 == IF edge1_len >= 0 THEN OverlapGraph_add_edge(G1, from, to, edge1_len, ol, idn)
              ELSE G1
        G3 == OverlapGraph_add_node(OverlapGraph_add_node(G2, rc_from), rc_to)
    IN IF edge2_len >= 0 THEN OverlapGraph_add_edge(G3, rc_from, rc_to, edge2_len, ol, idn)
       ELSE G3

\* one record of the PAF file: classified, and inserted when it is a proper
\* overlap. b is the pair <<graph, stats>> built so far.
BuildRecord(b, r, max_overhang, overhang_ratio) ==
    LET G == b[1]
        stats == b[2]
        b1 == r.query_start
        e1 == r.query_end
        l1 == r.query_length
        l2 == r.target_length
        b2 == IF r.strand = "+" THEN r.target_start ELSE l2 - r.target_end
        e2 == IF r.strand = "+" THEN r.target_end ELSE l2 - r.target_start
        overhang == Min2(b1, b2) + Min2(l1 - e1, l2 - e2)
        overlap_length == Max2(e1 - b1, e2 - b2)
        allowed_overhang == Min2(max_overhang, CeilOfProduct(overlap_length, overhang_ratio))
        first_contained == b1 <= b2 /\ (l1 - e1) <= (l2 - e2)
        second_contained == b1 >= b2 /\ (l1 - e1) >= (l2 - e2)
        q_plus == <<r.query_name, "+">>
        q_minus == <<r.query_name, "-">>
        t_orient == <<r.target_name, r.strand>>
        t_rc == rc_node(t_orient)
        overlap_len == F64AsU32(overlap_length)
    IN IF overhang > allowed_overhang
       THEN <<G, [stats EXCEPT !.nr_internal_match = @ + 1]>>
       ELSE IF first_contained
       THEN <<G, [stats EXCEPT !.nr_first_contained = @ + 1]>>
       ELSE IF second_contained
       THEN <<G, [stats EXCEPT !.nr_second_contained = @ + 1]>>
       ELSE IF b1 > b2
       THEN <<AddProperOverlap(G, q_plus, t_orient, b1 - b2,
                               t_rc, q_minus, (l2 - e2) - (l1 - e1),
                               overlap_len, BlockIdentity(r)),
              [stats EXCEPT !.nr_proper_overlaps = @ + 1]>>
       ELSE <<AddProperOverlap(G, t_orient, q_plus, b2 - b1,
                               q_minus, t_rc, (l1 - e1) - (l2 - e2),
                               overlap_len, BlockIdentity(r)),
              [stats EXCEPT !.nr_proper_overlaps = @ + 1]>>

RECURSIVE BuildRecords(_, _, _, _)
BuildRecords(b, records, max_overhang, overhang_ratio) ==
    IF records = <<>> THEN b
    ELSE BuildRecords(BuildRecord(b, Head(records), max_overhang, overhang_ratio),
                      Tail(records), max_overhang, overhang_ratio)

\* create_overlap_graph: the graph and the counters for the records of the file
create_overlap_graph(records, max_overhang, overhang_ratio) ==
    BuildRecords(<<OverlapGraph_new, OverlapGraphStats(0, 0, 0, 0)>>,
                 records, max_overhang, overhang_ratio)

-----------------------------------------------------------------------------
(* The state outside the graph passes *)

NoFilter == [phase |-> "off"]

NoRet == [pass |-> "none"]

\* the elements of a finite set of integers, ascending
RECURSIVE Ascending(_)
Ascending(S) == IF S = {} THEN <<>> ELSE <<Min(S)>> \o Ascending(S \ {Min(S)})

-----------------------------------------------------------------------------
(* SpecReduce: transitive reduction, run repeatedly, on the graphs the     *)
(* builder makes from at most MaxOverlaps proper overlaps between five     *)
(* reads laid out in the order R0..R4, each overlapping reads at most two  *)
(* places ahead, and R0 also R3 (at most one overlap per read pair, as the *)
(* filter keeps one alignment per pair). The twin of an edge has the same  *)
(* length, or the other length, by RcModes.                                *)

MaxOverlaps == 6

MaxPasses == 2

EdgeLens == {1, 5}

RcModes == {"same", "other"}

Fuzzes == {0, 10}

RcLen(el, mode) == IF mode = "same" THEN el ELSE Min(EdgeLens) + Max(EdgeLens) - el

ReducePairs ==
    << <<"R0", "R1">>, <<"R1", "R2">>, <<"R2", "R3">>, <<"R3", "R4">>,
       <<"R0", "R2">>, <<"R1", "R3">>, <<"R2", "R4">>, <<"R0", "R3">> >>

ReduceOverlaps(present, el, mode) ==
    [k \in 1..Cardinality(present) |->
        LET i == Ascending(present)[k]
        IN Overlap(Plus(ReducePairs[i][1]), Plus(ReducePairs[i][2]),
                   el[i], RcLen(el[i], mode), 100, 99)]

InitReduce ==
    /\ \E present \in {P \in SUBSET (1..Len(ReducePairs)) : Cardinality(P) <= MaxOverlaps} :
       \E el \in [present -> EdgeLens] : \E mode \in RcModes :
          g = BuildGraph(OverlapGraph_new, ReduceOverlaps(present, el, mode))
    /\ g0 = g
    /\ pc = <<>>
    /\ \E f \in Fuzzes : cfg = [fuzz |-> f]
    /\ ret = NoRet
    /\ flt = NoFilter

ReducePass ==
    /\ Len(pc) < MaxPasses
    /\ \E out \in reduce_transitive_edges(g, cfg.fuzz) :
          /\ g' = out.graph
          /\ ret' = [pass |-> "reduce", reduced |-> out.reduced]
    /\ g0' = g
    /\ pc' = Append(pc, "reduce")
    /\ UNCHANGED <<cfg, flt>>

NextReduce == ReducePass

SpecReduce == InitReduce /\ [][NextReduce]_vars

-----------------------------------------------------------------------------
(* Claims about transitive reduction, under SpecReduce *)

AfterReduce == pc # <<>> /\ Last(pc) = "reduce"

RemovedArcs == Arcs(g0) \ Arcs(g)

\* C2 as stated: every edge u -> w removed by a pass of the transitive reducer
\* still has a node v with u -> v and v -> w in the graph after the pass
C2_WitnessRemainsAfter ==
    AfterReduce =>
        \A a \in RemovedArcs : \E v \in DOMAIN g : HasEdge(g, a[1], v) /\ HasEdge(g, v, a[2])

\* C2 amended: every edge u -> w the transitive reducer stages for removal has
\* a node v with u -> v and v -> w in the graph before the pass, and the pass
\* removes exactly the staged edges and their reverse-complement twins
C2_WitnessBefore ==
    AfterReduce =>
        /\ \A a \in ret.reduced :
              \E v \in DOMAIN g0 : HasEdge(g0, a[1], v) /\ HasEdge(g0, v, a[2])
        /\ RemovedArcs = ret.reduced \cup {<<rc_node(a[2]), rc_node(a[1])>> : a \in ret.reduced}

\* a pass removed an edge whose two-step witness did not survive the pass
C2_Witness ==
    /\ AfterReduce
    /\ \E a \in ret.reduced :
          ~ \E v \in DOMAIN g : HasEdge(g, a[1], v) /\ HasEdge(g, v, a[2])

\* C3 as stated: a second run of the transitive reducer with the same fuzz on
\* the output of a first run removes no edge
C3_Idempotent ==
    (Len(pc) >= 2 /\ AfterReduce /\ pc[Len(pc) - 1] = "reduce") => RemovedArcs = {}

\* the S3 graph: R1+ -> R2+, R2+ -> R3+, R1+ -> R3+ and their twins, the
\* two-step path within fuzz of the direct edge
IsS3(G, fuzz) ==
    /\ DOMAIN G = {"R1", "R2", "R3"} \X Strands
    /\ Arcs(G) = {<<Plus("R1"), Plus("R2")>>, <<Plus("R2"), Plus("R3")>>,
                  <<Plus("R1"), Plus("R3")>>, <<Minus("R2"), Minus("R1")>>,
                  <<Minus("R3"), Minus("R2")>>, <<Minus("R3"), Minus("R1")>>}
    /\ LET d == EdgeTo(G, Plus("R1"), Plus("R2")).edge_len
                + EdgeTo(G, Plus("R2"), Plus("R3")).edge_len
                - EdgeTo(G, Plus("R1"), Plus("R3")).edge_len
       IN d <= fuzz /\ 0 - d <= fuzz

\* C10: on the S3 graph with fuzz = 10 the transitive reducer removes exactly
\* the edges R1+ -> R3+ and R3- -> R1-
C10_S3Reduced ==
    (pc = <<"reduce">> /\ cfg.fuzz = 10 /\ IsS3(g0, cfg.fuzz)) =>
        RemovedArcs = {<<Plus("R1"), Plus("R3")>>, <<Minus("R3"), Minus("R1")>>}

C10_Witness ==
    /\ pc = <<"reduce">> /\ cfg.fuzz = 10 /\ IsS3(g0, cfg.fuzz)
    /\ ~ HasEdge(g, Plus("R1"), Plus("R3"))
    /\ HasEdge(g, Plus("R1"), Plus("R2"))

-----------------------------------------------------------------------------
(* SpecClassify: classify_alignment applied to one alignment between two   *)
(* reads of at most MaxReadLen bases, for every placement of the aligned   *)
(* spans and every pair of coverage windows inside the reads.              *)

MaxReadLen == 3

ReadLens == {MaxReadLen - 1, MaxReadLen}

\* the half-open intervals [s, e) inside a read of len bases; e = s is the
\* empty coverage window
Spans(len) == {se \in (0..len) \X (0..len) : se[1] <= se[2]}

OverhangRatios == {<<1, 2>>, <<1, 1>>}

MinOverlapLengths == {0, 1}

WithWindow(len, w) ==
    [Read(len, len) EXCEPT !.coverage_start = w[1], !.coverage_end = w[2]]

InitClassify ==
    /\ \E ql \in ReadLens, tl \in ReadLens, st \in Strands :
       \E qa \in Spans(ql), ta \in Spans(tl), qw \in Spans(ql), tw \in Spans(tl) :
          flt = [phase |-> "classify",
                 r |-> Alignment("R1", ql, qa[1], qa[2], st, "R2", tl, ta[1], ta[2],
                                 Max2(qa[2] - qa[1], 1), Max2(qa[2] - qa[1], 1)),
                 reads |-> ("R1" :> WithWindow(ql, qw)) @@ ("R2" :> WithWindow(tl, tw))]
    /\ \E ratio \in OverhangRatios, ml \in MinOverlapLengths :
          cfg = [overhang_ratio |-> ratio, min_overlap_length |-> ml]
    /\ g = OverlapGraph_new
    /\ g0 = OverlapGraph_new
    /\ pc = <<>>
    /\ ret = NoRet

Classify ==
    /\ flt.phase = "classify"
    /\ LET out == classify_alignment(flt.r, flt.reads, cfg.overhang_ratio,
                                     cfg.min_overlap_length)
       IN flt' = [phase |-> "classified", r |-> flt.r, reads |-> flt.reads,
                  type |-> out.type, inserted |-> out.inserted]
    /\ UNCHANGED <<g, g0, pc, cfg, ret>>

NextClassify == Classify

SpecClassify == InitClassify /\ [][NextClassify]_vars

\* the decision tree of the specification: the query clamped to its coverage
\* window, the target first flipped with its read length when the strand is
\* '-' and then clamped to its coverage window
SpecifiedClassification(r, reads, overhang_ratio, min_overlap_length) ==
    LET rq == reads[r.query_name]
        rt == reads[r.target_name]
        b1 == Max2(r.query_start, rq.coverage_start)
        e1 == Min2(r.query_end, rq.coverage_end)
        l1 == rq.coverage_end - rq.coverage_start
        tl == r.target_length
        b2_flipped == IF r.strand = "+" THEN r.target_start ELSE tl - r.target_end
        e2_flipped == IF r.strand = "+" THEN r.target_end ELSE tl - r.target_start
        b2 == Max2(b2_flipped, rt.coverage_start)
        e2 == Min2(e2_flipped, rt.coverage_end)
        l2 == rt.coverage_end - rt.coverage_start
        overhang == Min2(b1, b2) + Min2(l1 - e1, l2 - e2)
        overlap_length == Max2(e1 - b1, e2 - b2)
        allowed == CeilOfProduct(overlap_length, overhang_ratio)
        forward == b1 > b2
        edge_len == IF forward THEN b1 - b2 ELSE b2 - b1
        rc_edge_len == IF forward THEN (l2 - e2) - (l1 - e1) ELSE (l1 - e1) - (l2 - e2)
        raw_edge_len == IF forward THEN r.query_start - b2_flipped
                        ELSE b2_flipped - r.query_start
        raw_rc_edge_len == IF forward
                           THEN (tl - e2_flipped) - (r.query_length - r.query_end)
                           ELSE (r.query_length - r.query_end) - (tl - e2_flipped)
    IN IF overhang > allowed THEN [type |-> "InternalMatch", oriented |-> <<>>]
       ELSE IF b1 <= b2 /\ (l1 - e1) <= (l2 - e2)
           THEN [type |-> "FirstContained", oriented |-> <<>>]
       ELSE IF b1 >= b2 /\ (l1 - e1) >= (l2 - e2)
           THEN [type |-> "SecondContained", oriented |-> <<>>]
       ELSE IF \/ (e1 - b1) + overhang < min_overlap_length
               \/ (e2 - b2) + overhang < min_overlap_length
           THEN [type |-> "Filtered", oriented |-> <<>>]
       ELSE [type |-> "ProperOverlap",
             oriented |-> IF raw_edge_len > 0 /\ raw_rc_edge_len > 0
                          THEN <<[source_name |-> IF forward THEN <<r.query_name, "+">>
                                                  ELSE <<r.target_name, r.strand>>,
                                  edge_len |-> edge_len, rc_edge_len |-> rc_edge_len]>>
                          ELSE <<>>]

\* the class, and for a stored overlap the orientation and the edge lengths,
\* of the classification the filter made
MadeClassification ==
    [type |-> flt.type,
     oriented |-> [i \in DOMAIN flt.inserted |->
                      [source_name |-> flt.inserted[i].source_name,
                       edge_len |-> flt.inserted[i].edge_len,
                       rc_edge_len |-> flt.inserted[i].rc_edge_len]]]

\* C25: for every alignment and every pair of coverage windows
\* classify_alignment computes the class, the orientation and the edge lengths
\* of the specified decision tree, in which the target coordinates are flipped
\* with the target read length when the strand is '-' and only then clamped
\* to the target's coverage window
C25_ClassifiesAsSpecified ==
    flt.phase = "classified" =>
        MadeClassification = SpecifiedClassification(flt.r, flt.reads, cfg.overhang_ratio,
                                                     cfg.min_overlap_length)

-----------------------------------------------------------------------------
(* SpecFilter: filter_paf, record by record and phase by phase, on the one  *)
(* record of scenario S1 and on every input of at most MaxRecords records   *)
(* between three reads of FilterReadLen bases.                              *)

MaxRecords == 2

FilterReadLen == 4

FilterSpans == {<<0, 2>>, <<2, 4>>, <<1, 4>>}

FilterPairs == {<<"R1", "R2">>, <<"R2", "R1">>, <<"R2", "R3">>, <<"R3", "R3">>}

FilterRecords ==
    {Alignment(p[1], FilterReadLen, qa[1], qa[2], st, p[2], FilterReadLen, ta[1], ta[2],
               qa[2] - qa[1], qa[2] - qa[1]) :
        p \in FilterPairs, qa \in FilterSpans, ta \in FilterSpans, st \in Strands}

\* a read of FilterReadLen bases aligned to the shorter read R4
ShortReadLen == 2

ShortTargetRecords ==
    {Alignment("R1", FilterReadLen, qa[1], qa[2], st, "R4", ShortReadLen, 0, ShortReadLen,
               qa[2] - qa[1], qa[2] - qa[1]) :
        qa \in FilterSpans, st \in Strands}

FilterInputs ==
    UNION {[1..n -> FilterRecords \cup ShortTargetRecords] : n \in 0..MaxRecords}

\* the PAF record of scenario S1
S1Record == Alignment("R1", 1000, 500, 1000, "+", "R2", 1000, 0, 500, 490, 500)

\* the PAF record of scenario S2
S2Record == Alignment("R2", 500, 0, 500, "+", "R1", 2000, 700, 1200, 495, 500)

FilterStart(records) ==
    [phase |-> "ingest", records |-> records, next |-> 1, reads |-> <<>>,
     alignment_ids_per_read |-> <<>>, alignments |-> <<>>, overlaps |-> <<>>,
     contained_reads |-> {}]

InitFilter ==
    /\ \/ /\ \E records \in FilterInputs : flt = FilterStart(records)
          /\ \E ml \in {0, 3}, mc \in {0, 1}, ratio \in OverhangRatios :
                cfg = [min_overlap_length |-> ml, min_overlap_count |-> mc,
                       min_percent_identity |-> 98, overhang_ratio |-> ratio]
       \/ /\ flt = FilterStart(<<S1Record>>)
          /\ \E ml \in {0, 1, 500}, mc \in {0, 1, 3}, mi \in {5, 98, 99},
                ratio \in OverhangRatios :
                cfg = [min_overlap_length |-> ml, min_overlap_count |-> mc,
                       min_percent_identity |-> mi, overhang_ratio |-> ratio]
       \/ /\ flt = FilterStart(<<S2Record>>)
          /\ \E ml \in {0, 1, 500}, mc \in {0, 1, 3}, mi \in {5, 98, 99},
                ratio \in OverhangRatios :
                cfg = [min_overlap_length |-> ml, min_overlap_count |-> mc,
                       min_percent_identity |-> mi, overhang_ratio |-> ratio]
    /\ g = OverlapGraph_new
    /\ g0 = OverlapGraph_new
    /\ pc = <<>>
    /\ ret = NoRet

\* phase 1, one record of the input
Ingest ==
    /\ flt.phase = "ingest"
    /\ flt.next <= Len(flt.records)
    /\ flt' = [IngestRecord(flt, flt.records[flt.next], cfg) EXCEPT !.next = flt.next + 1]
    /\ UNCHANGED <<g, g0, pc, cfg, ret>>

\* the end of the input
EndOfInput ==
    /\ flt.phase = "ingest"
    /\ flt.next > Len(flt.records)
    /\ flt' = [flt EXCEPT !.phase = "coverage"]
    /\ UNCHANGED <<g, g0, pc, cfg, ret>>

\* phase 2: the coverage window of every read
CoverageWindows ==
    /\ flt.phase = "coverage"
    /\ flt' = [flt EXCEPT
                  !.phase = "classify",
                  !.reads = [n \in DOMAIN flt.reads |->
                                CoverageWindow(flt.reads[n], cfg.min_overlap_count)]]
    /\ UNCHANGED <<g, g0, pc, cfg, ret>>

\* phase 3: classification
Classification ==
    /\ flt.phase = "classify"
    /\ flt' = [ClassifyAll(flt, cfg) EXCEPT !.phase = "post"]
    /\ UNCHANGED <<g, g0, pc, cfg, ret>>

\* the removal of contained and low-coverage reads; the overlaps are returned
PostFiltering ==
    /\ flt.phase = "post"
    /\ flt' = [PostFilter(flt, cfg) EXCEPT !.phase = "done"]
    /\ UNCHANGED <<g, g0, pc, cfg, ret>>

NextFilter == Ingest \/ EndOfInput \/ CoverageWindows \/ Classification \/ PostFiltering

SpecFilter == InitFilter /\ [][NextFilter]_vars

-----------------------------------------------------------------------------
(* Claims about the alignment filter *)

\* the Overlaps the filter has emitted
EmittedOverlaps ==
    IF flt.phase = "classified" THEN Range(flt.inserted)
    ELSE IF flt.phase = "done" THEN Range(flt.overlaps)
    ELSE {}

\* C4: every Overlap the alignment filter emits has edge_len > 0 and
\* rc_edge_len > 0 (coverage-refined coordinates) and edge_len_orig > 0 and
\* rc_edge_len_orig > 0 (raw coordinates)
C4_PositiveEdgeLens ==
    \A ov \in EmittedOverlaps :
        /\ ov.edge_len > 0
        /\ ov.rc_edge_len > 0
        /\ ov.edge_len_orig > 0
        /\ ov.rc_edge_len_orig > 0

\* an Overlap is emitted whose refined edge lengths differ from the raw ones
C4_Witness ==
    \E ov \in EmittedOverlaps :
        /\ ov.edge_len # ov.edge_len_orig
        /\ ov.rc_edge_len # ov.rc_edge_len_orig
        /\ ov.edge_len > 0

\* the input was the one record of S1 and the tunables let it pass the
\* ingestion filters
IsS1Run ==
    /\ flt.phase = "done"
    /\ flt.records = <<S1Record>>
    /\ cfg.min_overlap_length <= 500
    /\ cfg.min_percent_identity <= 98

IsS1Overlap(ov) ==
    /\ ov.source_name = Plus("R1") /\ ov.sink_name = Plus("R2") /\ ov.edge_len = 500
    /\ ov.rc_source_name = Minus("R2") /\ ov.rc_sink_name = Minus("R1")
    /\ ov.rc_edge_len = 500

\* C5: on the one record of S1, with min_overlap_length <= 500 and
\* min_percent_identity <= 98, the filter emits exactly one Overlap, R1+ -> R2+
\* with edge_len 500 and twin R2- -> R1- with rc_edge_len 500
C5_S1OneOverlap ==
    IsS1Run =>
        /\ Cardinality(DOMAIN flt.overlaps) = 1
        /\ \A ov \in Range(flt.overlaps) : IsS1Overlap(ov)

\* the S1 run in which the Overlap is emitted
C5_Emitted == IsS1Run /\ \E ov \in Range(flt.overlaps) : IsS1Overlap(ov)

\* the reads that the classification of a kept alignment marks as contained
ContainedReads ==
    LET type(k) == classify_alignment(flt.alignments[k], flt.reads, cfg.overhang_ratio,
                                      cfg.min_overlap_length).type
    IN {k[1] : k \in {x \in DOMAIN flt.alignments : type(x) = "FirstContained"}}
          \cup {k[2] : k \in {x \in DOMAIN flt.alignments : type(x) = "SecondContained"}}

\* the input was the one record of S2
IsS2Run == flt.phase = "done" /\ flt.records = <<S2Record>>

\* C16: no Overlap the alignment filter returns involves a read that a kept
\* alignment classified as contained (first or second contained), and on the
\* one record of S2 the filter returns no Overlap
C16_NoContainedReadInOverlaps ==
    flt.phase = "done" =>
        /\ \A k \in DOMAIN flt.overlaps :
              k[1] \notin ContainedReads /\ k[2] \notin ContainedReads
        /\ IsS2Run => DOMAIN flt.overlaps = {}

\* an alignment was classified as a proper overlap and its Overlap was stored,
\* one of its reads is contained by another alignment, and the Overlap is not
\* among those returned
C16_Witness ==
    /\ flt.phase = "done"
    /\ \E k \in DOMAIN flt.alignments :
          /\ classify_alignment(flt.alignments[k], flt.reads, cfg.overhang_ratio,
                                cfg.min_overlap_length).inserted # <<>>
          /\ (k[1] \in ContainedReads \/ k[2] \in ContainedReads)
          /\ k \notin DOMAIN flt.overlaps

\* C17: after each pass of the alignment filter (ingestion, coverage windows,
\* classification) every read, also one first seen as the target of a record,
\* has coverage_start <= coverage_end <= read length
C17_CoverageWindowInRange ==
    flt.phase \in {"coverage", "classify", "post", "done"} =>
        \A n \in DOMAIN flt.reads :
            /\ flt.reads[n].coverage_start <= flt.reads[n].coverage_end
            /\ flt.reads[n].coverage_end <= flt.reads[n].length

\* the records of the input read so far that pass the ingestion filters
Accepted(record) ==
    /\ ~ is_self_alignment(record)
    /\ record.query_end - record.query_start >= cfg.min_overlap_length
    /\ record.target_end - record.target_start >= cfg.min_overlap_length
    /\ ~ IdentityBelow(percent_identity(record), cfg.min_percent_identity)

AcceptedSoFar ==
    {flt.records[i] : i \in {k \in 1..(flt.next - 1) : Accepted(flt.records[k])}}

BetweenPair(a, b) ==
    {r \in AcceptedSoFar : {r.query_name, r.target_name} = {a, b}}

\* C26: after any sequence of ingested records at most one alignment is
\* stored per unordered read pair, never one under (a, b) and one under
\* (b, a), and the stored one has the largest alignment_block_length of the
\* accepted records of the pair
C26_LongestPerPair ==
    flt.phase = "ingest" =>
        /\ \A k \in DOMAIN flt.alignments : <<k[2], k[1]>> \notin DOMAIN flt.alignments
        /\ \A k \in DOMAIN flt.alignments :
              /\ flt.alignments[k] \in BetweenPair(k[1], k[2])
              /\ \A r \in BetweenPair(k[1], k[2]) :
                    r.alignment_block_length <= flt.alignments[k].alignment_block_length
        /\ \A r \in AcceptedSoFar :
              \/ <<r.query_name, r.target_name>> \in DOMAIN flt.alignments
              \/ <<r.target_name, r.query_name>> \in DOMAIN flt.alignments

\* a longer record of the pair (R2, R1) has replaced the one stored under (R1, R2)
C26_Witness ==
    /\ flt.phase = "ingest"
    /\ flt.next = 3
    /\ \A i \in 1..2 : Accepted(flt.records[i])
    /\ flt.records[1].query_name = "R1" /\ flt.records[1].target_name = "R2"
    /\ flt.records[2].query_name = "R2" /\ flt.records[2].target_name = "R1"
    /\ flt.records[1].alignment_block_length < flt.records[2].alignment_block_length
    /\ DOMAIN flt.alignments = {<<"R2", "R1">>}
    /\ flt.alignments[<<"R2", "R1">>] = flt.records[2]

-----------------------------------------------------------------------------
(* SpecTips: trim_tips, called repeatedly, on the graphs the builder makes  *)
(* from at most MaxTipOverlaps of the overlaps of TipPairs: the chain       *)
(* Ra -> Rb -> Rc that enters R1, and R0 -> R1 -> R2 with the side          *)
(* branches R0 -> R3 and R1 -> R4.                                          *)

MaxTipOverlaps == 6

MaxTipCalls == 2

MaxTipLens == {0, 2, 4}

TipPairs ==
    << <<"Ra", "Rb">>, <<"Rb", "Rc">>, <<"Rc", "R1">>, <<"R0", "R1">>,
       <<"R1", "R2">>, <<"R0", "R3">>, <<"R1", "R4">> >>

PairOverlaps(pairs, present, el, mode) ==
    [k \in 1..Cardinality(present) |->
        LET i == Ascending(present)[k]
        IN Overlap(Plus(pairs[i][1]), Plus(pairs[i][2]),
                   el[i], RcLen(el[i], mode), 100, 99)]

InitTips ==
    /\ \E present \in {P \in SUBSET (1..Len(TipPairs)) : Cardinality(P) <= MaxTipOverlaps} :
       \E el \in [present -> EdgeLens] : \E mode \in RcModes :
          g = BuildGraph(OverlapGraph_new, PairOverlaps(TipPairs, present, el, mode))
    /\ g0 = g
    /\ pc = <<>>
    /\ \E t \in MaxTipLens : cfg = [max_tip_len |-> t]
    /\ ret = NoRet
    /\ flt = NoFilter

TrimTips ==
    /\ Len(pc) < MaxTipCalls
    /\ LET out == trim_tips(g, cfg.max_tip_len)
       IN /\ g' = out.graph
          /\ ret' = [pass |-> "tips", removed |-> out.removed]
    /\ g0' = g
    /\ pc' = Append(pc, "tips")
    /\ UNCHANGED <<cfg, flt>>

NextTips == TrimTips

SpecTips == InitTips /\ [][NextTips]_vars

-----------------------------------------------------------------------------
(* Claims about tip trimming, under SpecTips *)

AfterTips == pc # <<>> /\ Last(pc) = "tips"

\* the S5 graph: the chain Ra -> Rb -> Rc, in-degree of Ra 0, Rc's one edge
\* entering R1, which R0 enters too and which leads on to R2; twins present
IsS5(G) ==
    /\ DOMAIN G = {"Ra", "Rb", "Rc", "R0", "R1", "R2"} \X Strands
    /\ Arcs(G) = {<<Plus("Ra"), Plus("Rb")>>, <<Plus("Rb"), Plus("Rc")>>,
                  <<Plus("Rc"), Plus("R1")>>, <<Plus("R0"), Plus("R1")>>,
                  <<Plus("R1"), Plus("R2")>>,
                  <<Minus("Rb"), Minus("Ra")>>, <<Minus("Rc"), Minus("Rb")>>,
                  <<Minus("R1"), Minus("Rc")>>, <<Minus("R1"), Minus("R0")>>,
                  <<Minus("R2"), Minus("R1")>>}

\* C6: on the S5 graph trim_tips with max_tip_len = 4 removes all six
\* oriented nodes Ra+, Ra-, Rb+, Rb-, Rc+, Rc-
C6_S5TipRemoved ==
    (pc = <<"tips">> /\ cfg.max_tip_len = 4 /\ IsS5(g0)) =>
        DOMAIN g \cap ({"Ra", "Rb", "Rc"} \X Strands) = {}

\* the forward chain that starts at n: n and the nodes reached through unique
\* successors that have in-degree 1 and out-degree 1
RECURSIVE ForwardChain(_, _)
ForwardChain(G, chain) ==
    LET succs == G[Last(chain)]
        s == succs[1].target_id
    IN IF Len(succs) = 1 /\ s \in DOMAIN G /\ s \notin Range(chain)
          /\ indeg(G, s) = 1 /\ outdeg(G, s) = 1
       THEN ForwardChain(G, Append(chain, s))
       ELSE chain

\* n has in-degree 0 and starts a forward chain of fewer than max_tip_len nodes
\* whose last node leads into a branching node, one that other edges enter
\* too and that therefore cannot be merged into the chain
IsShortHeadTip(G, n, max_tip_len) ==
    /\ indeg(G, n) = 0
    /\ LET chain == ForwardChain(G, <<n>>)
           succs == G[Last(chain)]
       IN /\ Len(chain) < max_tip_len
          /\ Len(succs) = 1
          /\ succs[1].target_id \in DOMAIN G
          /\ indeg(G, succs[1].target_id) >= 2

\* C7: after trim_tips(max_tip_len) has returned, no node of in-degree 0 starts
\* a forward chain of fewer than max_tip_len nodes that ends at a
\* non-mergeable node
C7_NoShortTipLeft ==
    AfterTips => \A n \in DOMAIN g : ~ IsShortHeadTip(g, n, cfg.max_tip_len)

\* C8: a second call of trim_tips with the same max_tip_len on the output of a
\* first call returns 0 and leaves the graph unchanged
C8_TipsIdempotent ==
    (Len(pc) >= 2 /\ AfterTips /\ pc[Len(pc) - 1] = "tips") =>
        (ret.removed = 0 /\ g = g0)

\* the first of two calls needed more than one round of the main loop, and
\* the second call has returned
C8_Witness ==
    /\ Len(pc) >= 2 /\ AfterTips /\ pc[Len(pc) - 1] = "tips"
    /\ ret.removed = 0
    /\ Plus("R4") \notin DOMAIN g /\ Plus("R1") \notin DOMAIN g
    /\ Plus("R0") \in DOMAIN g

\* every oriented node of G has its partner of the other strand in G
NodesPaired(G) == \A n \in DOMAIN G : rc_node(n) \in DOMAIN G

\* C21: for every oriented node x that trim_tips removes, rc(x) is removed as
\* well, and after the pass every node u+ of the graph has its partner u- in
\* the graph and every u- its partner u+
C21_TipsRemovedWithTwins ==
    (AfterTips /\ NodesPaired(g0)) =>
        /\ \A x \in DOMAIN g0 \ DOMAIN g : rc_node(x) \notin DOMAIN g
        /\ NodesPaired(g)

-----------------------------------------------------------------------------
(* SpecBubble: remove_bubbles, called repeatedly, on the graphs the builder *)
(* makes from the overlaps of BubblePairs: the bubble R0 -> {R1, R2} -> R3, *)
(* its continuation R3 -> R4 and the chord R1 -> R2. Each overlap has one   *)
(* of the Strengths <<overlap_len, identity>>.                              *)

MaxBubbleCalls == 2

Strengths == {<<100, 90>>, <<105, 99>>, <<200, 99>>}

BubbleLens == {0, 4}

SupportRatios == {<<1, 1>>, <<11, 10>>}

BubblePairs ==
    << <<"R0", "R1">>, <<"R0", "R2">>, <<"R1", "R3">>, <<"R2", "R3">>,
       <<"R3", "R4">>, <<"R1", "R2">> >>

StrengthOverlaps(pairs, present, st) ==
    [k \in 1..Cardinality(present) |->
        LET i == Ascending(present)[k]
        IN Overlap(Plus(pairs[i][1]), Plus(pairs[i][2]),
                   Max(EdgeLens), Max(EdgeLens), st[i][1], st[i][2])]

InitBubble ==
    /\ \E present \in SUBSET (1..Len(BubblePairs)) :
       \E st \in [present -> Strengths] :
          g = BuildGraph(OverlapGraph_new, StrengthOverlaps(BubblePairs, present, st))
    /\ g0 = g
    /\ pc = <<>>
    /\ \E l \in BubbleLens : \E r \in SupportRatios :
          cfg = [max_bubble_length |-> l, min_support_ratio |-> r]
    /\ ret = NoRet
    /\ flt = NoFilter

RemoveBubbles ==
    /\ Len(pc) < MaxBubbleCalls
    /\ \E out \in remove_bubbles(g, cfg.max_bubble_length, cfg.min_support_ratio) :
          /\ g' = out.graph
          /\ ret' = [pass |-> "bubbles", removed |-> out.removed]
    /\ g0' = g
    /\ pc' = Append(pc, "bubbles")
    /\ UNCHANGED <<cfg, flt>>

NextBubble == RemoveBubbles

SpecBubble == InitBubble /\ [][NextBubble]_vars

-----------------------------------------------------------------------------
(* Claims about bubble removal, under SpecBubble *)

AfterBubbles == pc # <<>> /\ Last(pc) = "bubbles"

BothStrands(reads) == {Plus(r) : r \in reads} \cup {Minus(r) : r \in reads}

\* scenario S4: R0 -> {R1, R2} -> R3 and the twins, nothing else
IsS4(G) ==
    /\ DOMAIN G = BothStrands({"R0", "R1", "R2", "R3"})
    /\ Arcs(G) = {<<Plus("R0"), Plus("R1")>>, <<Plus("R0"), Plus("R2")>>,
                  <<Plus("R1"), Plus("R3")>>, <<Plus("R2"), Plus("R3")>>,
                  <<Minus("R1"), Minus("R0")>>, <<Minus("R2"), Minus("R0")>>,
                  <<Minus("R3"), Minus("R1")>>, <<Minus("R3"), Minus("R2")>>}

Stronger(e1, e2) == e1.overlap_len > e2.overlap_len /\ e1.identity > e2.identity

\* both overlaps of the R1 side have the higher identity and overlap_len
R1SideStronger(G) ==
    /\ Stronger(EdgeTo(G, Plus("R0"), Plus("R1")), EdgeTo(G, Plus("R0"), Plus("R2")))
    /\ Stronger(EdgeTo(G, Plus("R1"), Plus("R3")), EdgeTo(G, Plus("R2"), Plus("R3")))

IsS4Call ==
    /\ AfterBubbles
    /\ Len(pc) = 1
    /\ IsS4(g0)
    /\ R1SideStronger(g0)
    /\ cfg.max_bubble_length = 4
    /\ cfg.min_support_ratio = <<11, 10>>

R2Removed ==
    /\ DOMAIN g = BothStrands({"R0", "R1", "R3"})
    /\ \A n \in DOMAIN g : Targets(g[n]) \cap BothStrands({"R2"}) = {}

BranchScore2(e) == 2 * e.overlap_len + 4 * e.identity + 6

\* the branch over e1 beats the branch over e2 by the support ratio 1.1
Supported(e1, e2) == BranchScore2(e2) * 11 <= BranchScore2(e1) * 10

\* the R1 side has the support at one of the two ends of the bubble: at R0+,
\* where the overlaps into R3+ are scored, or at R3-, where the overlaps into
\* R0- are
S4Supported(G) ==
    \/ Supported(EdgeTo(G, Plus("R1"), Plus("R3")), EdgeTo(G, Plus("R2"), Plus("R3")))
    \/ Supported(EdgeTo(G, Minus("R1"), Minus("R0")), EdgeTo(G, Minus("R2"), Minus("R0")))

-----------------------------------------------------------------------------
(* SpecFan: remove_bubbles on the graphs the builder makes from the         *)
(* overlaps of FanPairs: R0 with the three neighbours R1, R2, R3, each of   *)
(* which leads into R4. ret holds the pairs of neighbours the call ran its  *)
(* searches for.                                                            *)

MaxFanCalls == 2

FanPairs ==
    << <<"R0", "R1">>, <<"R0", "R2">>, <<"R0", "R3">>, <<"R1", "R4">>,
       <<"R2", "R4">>, <<"R3", "R4">> >>

InitFan ==
    /\ \E present \in SUBSET (1..Len(FanPairs)) :
       \E st \in [present -> Strengths] :
          g = BuildGraph(OverlapGraph_new, StrengthOverlaps(FanPairs, present, st))
    /\ g0 = g
    /\ pc = <<>>
    /\ \E l \in BubbleLens : \E r \in SupportRatios :
          cfg = [max_bubble_length |-> l, min_support_ratio |-> r]
    /\ ret = NoRet
    /\ flt = NoFilter

RemoveFanBubbles ==
    /\ Len(pc) < MaxFanCalls
    /\ \E out \in remove_bubbles(g, cfg.max_bubble_length, cfg.min_support_ratio) :
          /\ g' = out.graph
          /\ ret' = [pass |-> "bubbles", removed |-> out.removed,
                     examined |-> out.examined]
    /\ g0' = g
    /\ pc' = Append(pc, "bubbles")
    /\ UNCHANGED <<cfg, flt>>

NextFan == RemoveFanBubbles

SpecFan == InitFan /\ [][NextFan]_vars

\* C24: once remove_bubbles has deleted nodes for a pair of outgoing
\* neighbours of u, it examines no further pair of neighbours of the same u
\* in that pass
C24_StopAfterFirstDeletion ==
    (pc # <<>> /\ Last(pc) = "bubbles") =>
        \A p, q \in DOMAIN ret.examined :
            (p < q /\ ret.examined[p].removed) => ret.examined[q].u # ret.examined[p].u

-----------------------------------------------------------------------------
(* SpecShort: remove_short_edges on the graphs the builder makes from the   *)
(* overlaps of ShortPairs, the star R0 -> {R1, R2, R3}, for every overlap   *)
(* length of ShortOverlapLens on each edge and every drop_ratio of          *)
(* ShortRatios, fractions between 0 and 1.                                  *)

MaxShortCalls == 2

ShortOverlapLens == {2, 3, 5, 7, 5001}

ShortRatios == {<<0, 1>>, <<1, 2000>>, <<1, 2>>, <<4, 5>>, <<1, 1>>}

ShortPairs == << <<"R0", "R1">>, <<"R0", "R2">>, <<"R0", "R3">> >>

InitShort ==
    /\ \E present \in SUBSET (1..Len(ShortPairs)) :
       \E st \in [present -> {<<l, 99>> : l \in ShortOverlapLens}] :
          g = BuildGraph(OverlapGraph_new, StrengthOverlaps(ShortPairs, present, st))
    /\ g0 = g
    /\ pc = <<>>
    /\ \E r \in ShortRatios : cfg = [short_edge_ratio |-> r]
    /\ ret = NoRet
    /\ flt = NoFilter

RemoveShortEdges ==
    /\ Len(pc) < MaxShortCalls
    /\ g' \in remove_short_edges(g, cfg.short_edge_ratio)
    /\ ret' = [pass |-> "short_edges"]
    /\ g0' = g
    /\ pc' = Append(pc, "short_edges")
    /\ UNCHANGED <<cfg, flt>>

NextShort == RemoveShortEdges

SpecShort == InitShort /\ [][NextShort]_vars

\* M * drop_ratio rounded to the nearest integer, a half rounded up
RoundedProduct(max_overlap, drop_ratio) ==
    (2 * max_overlap * drop_ratio[1] + drop_ratio[2]) \div (2 * drop_ratio[2])

\* the edges of a node that are not below the rounded threshold
AtLeastRounded(edges, drop_ratio) ==
    LET max_overlap == Max({edges[i].overlap_len : i \in DOMAIN edges})
    IN SelectSeq(edges,
           LAMBDA e : e.overlap_len >= RoundedProduct(max_overlap, drop_ratio))

\* C27: for every node with at least two outgoing edges, with M the largest
\* overlap_len among them, remove_short_edges removes at that node exactly
\* the edges whose overlap_len is below round(M * drop_ratio), for every M
\* and every drop_ratio between 0 and 1
C27_RoundedThreshold ==
    (pc # <<>> /\ Last(pc) = "short_edges") =>
        \A n \in DOMAIN g0 :
            Len(g0[n]) >= 2 =>
                Range(g[n]) = Range(AtLeastRounded(g0[n], cfg.short_edge_ratio))

-----------------------------------------------------------------------------
(* Spec: the cleanup passes, in any sequence of at most MaxSteps passes, on *)
(* the graphs the builder makes from the overlaps of CleanupPairs: the      *)
(* bubble R0 -> {R1, R2} -> R3, its continuation R3 -> R4 and the chain     *)
(* Ra -> R1 that enters it. An overlap is long (a short edge) or short (a   *)
(* long edge), by EdgeKinds.                                                *)

MaxSteps == 2

EdgeKinds ==
    {[edge_len |-> Min(EdgeLens), overlap_len |-> 200, identity |-> 99],
     [edge_len |-> Max(EdgeLens), overlap_len |-> 100, identity |-> 90]}

CleanupPairs ==
    << <<"R0", "R1">>, <<"R0", "R2">>, <<"R1", "R3">>, <<"R2", "R3">>,
       <<"R3", "R4">>, <<"Ra", "R1">> >>

KindOverlaps(pairs, present, kind, mode) ==
    [k \in 1..Cardinality(present) |->
        LET i == Ascending(present)[k]
        IN Overlap(Plus(pairs[i][1]), Plus(pairs[i][2]),
                   kind[i].edge_len, RcLen(kind[i].edge_len, mode),
                   kind[i].overlap_len, kind[i].identity)]

\* the tunables of the driver in main.rs and the default short_edge_ratio
DriverConfig ==
    [fuzz |-> 10, short_edge_ratio |-> <<4, 5>>, max_bubble_length |-> 8,
     min_support_ratio |-> <<11, 10>>, max_tip_len |-> 4]

Init ==
    /\ \E present \in SUBSET (1..Len(CleanupPairs)) :
       \E kind \in [present -> EdgeKinds] : \E mode \in RcModes :
          g = BuildGraph(OverlapGraph_new, KindOverlaps(CleanupPairs, present, kind, mode))
    /\ g0 = g
    /\ pc = <<>>
    /\ cfg = DriverConfig
    /\ ret = NoRet
    /\ flt = NoFilter

Step(pass) ==
    /\ Len(pc) < MaxSteps
    /\ g0' = g
    /\ pc' = Append(pc, pass)
    /\ UNCHANGED <<cfg, flt>>

TransitiveReduction ==
    /\ Step("reduce")
    /\ \E out \in reduce_transitive_edges(g, cfg.fuzz) :
          /\ g' = out.graph
          /\ ret' = [pass |-> "reduce", reduced |-> out.reduced]

ShortEdgePruning ==
    /\ Step("short_edges")
    /\ g' \in remove_short_edges(g, cfg.short_edge_ratio)
    /\ ret' = [pass |-> "short_edges"]

BubbleRemoval ==
    /\ Step("bubbles")
    /\ \E out \in remove_bubbles(g, cfg.max_bubble_length, cfg.min_support_ratio) :
          /\ g' = out.graph
          /\ ret' = [pass |-> "bubbles", removed |-> out.removed]

SmallComponentRemoval ==
    /\ Step("components")
    /\ LET out == remove_small_components(g)
       IN /\ g' = out.graph
          /\ ret' = [pass |-> "components", removed |-> out.removed]

TipTrimming ==
    /\ Step("tips")
    /\ LET out == trim_tips(g, cfg.max_tip_len)
       IN /\ g' = out.graph
          /\ ret' = [pass |-> "tips", removed |-> out.removed]

Next ==
    \/ TransitiveReduction
    \/ ShortEdgePruning
    \/ BubbleRemoval
    \/ SmallComponentRemoval
    \/ TipTrimming

Spec == Init /\ [][Next]_vars

-----------------------------------------------------------------------------
(* Claims about the cleanup passes, under Spec *)

\* every edge u -> v has the twin rc(v) -> rc(u) with equal overlap_len and
\* identity
TwinsPresent(G) ==
    \A n \in DOMAIN G : \A e \in Range(G[n]) :
        /\ rc_node(e.target_id) \in DOMAIN G
        /\ \E t \in Range(G[rc_node(e.target_id)]) :
              /\ t.target_id = rc_node(n)
              /\ t.overlap_len = e.overlap_len
              /\ t.identity = e.identity

\* C1 as stated: the graph the builder made is symmetric, and after every
\* sequence of cleanup passes every remaining edge still has its twin
C1_SymmetryPreserved == TwinsPresent(g)

\* the edges of G below the threshold of their source node
ShortArcs(G, drop_ratio) ==
    {a \in Arcs(G) :
        /\ Len(G[a[1]]) >= 2
        /\ EdgeTo(G, a[1], a[2]).overlap_len
              < ShortThreshold(Max({G[a[1]][i].overlap_len : i \in DOMAIN G[a[1]]}),
                               drop_ratio)}

TwinArc(a) == <<rc_node(a[2]), rc_node(a[1])>>

\* C20: whenever remove_short_edges removes an edge u -> v from a symmetric
\* graph it also removes the twin rc(v) -> rc(u), and it removes no edge other
\* than the edges below the threshold and their twins
C20_ShortEdgeTwinsRemoved ==
    (pc # <<>> /\ Last(pc) = "short_edges" /\ Synchronized(g0)) =>
        \A a \in Arcs(g0) \ Arcs(g) :
            /\ TwinArc(a) \notin Arcs(g)
            /\ a \in ShortArcs(g0, cfg.short_edge_ratio)
                  \/ TwinArc(a) \in ShortArcs(g0, cfg.short_edge_ratio)

SmallComponentsOf(G) ==
    {c \in weakly_connected_components(G) : Cardinality(c) < MinComponentSize}

\* C28: on a symmetric graph the small-component removal deletes every weakly
\* connected component below the minimum size together with the twins of its
\* nodes, keeps every node of the other components with all its edges, and
\* leaves no component below the minimum size
C28_SmallComponentsRemoved ==
    (pc # <<>> /\ Last(pc) = "components" /\ Synchronized(g0)) =>
        /\ \A c \in SmallComponentsOf(g0) : \A n \in c :
              n \notin DOMAIN g /\ rc_node(n) \notin DOMAIN g
        /\ \A c \in weakly_connected_components(g0) \ SmallComponentsOf(g0) : \A n \in c :
              n \in DOMAIN g /\ g[n] = g0[n]
        /\ SmallComponentsOf(g) = {}

\* a symmetric graph with a component below and a component at the minimum
\* size has gone through the removal
C28_Witness ==
    /\ pc # <<>> /\ Last(pc) = "components" /\ Synchronized(g0)
    /\ SmallComponentsOf(g0) # {}
    /\ \E c \in weakly_connected_components(g0) : Cardinality(c) = MinComponentSize
    /\ DOMAIN g # {} /\ DOMAIN g # DOMAIN g0

\* C29: after every node-deleting step (bubble removal, small-component
\* removal, tip trimming) and after any sequence of cleanup passes, the target
\* of every edge of the graph is a node of the graph
C29_NoDanglingEdges ==
    \A n \in DOMAIN g : \A e \in Range(g[n]) : e.target_id \in DOMAIN g

-----------------------------------------------------------------------------
(* SpecCompress: compress_unitigs on the graphs the builder makes from the  *)
(* overlaps of CompressPairs (the cycle R0 -> R1 -> ... -> R5 -> R0 of      *)
(* scenario S6 and the chord R0 -> R2, at most MaxMissing of them left     *)
(* out), as built or after one call of trim_tips, with reads of SeqLens     *)
(* bases in the FASTQ map.                                                  *)

MaxMissing == 1

SeqLens == {3, 5}

Bases == <<"A", "C", "G", "T">>

\* the sequence of a read of len bases
ReadSeq(len) == [i \in 1..len |-> Bases[(i % 4) + 1]]

CompressPairs ==
    << <<"R0", "R1">>, <<"R1", "R2">>, <<"R2", "R3">>, <<"R3", "R4">>,
       <<"R4", "R5">>, <<"R5", "R0">>, <<"R0", "R2">> >>

CompressReads == {"R0", "R1", "R2", "R3", "R4", "R5"}

InitCompress ==
    /\ \E present \in {P \in SUBSET (1..Len(CompressPairs)) :
                             Cardinality(P) >= Len(CompressPairs) - MaxMissing} :
       \E el \in [present -> EdgeLens] : \E mode \in RcModes : \E trimmed \in BOOLEAN :
          LET built == BuildGraph(OverlapGraph_new,
                                  PairOverlaps(CompressPairs, present, el, mode))
          IN g = IF trimmed THEN trim_tips(built, 4).graph ELSE built
    /\ g0 = g
    /\ pc = <<>>
    /\ \E len \in SeqLens : cfg = [fastq_seqs |-> [r \in CompressReads |-> ReadSeq(len)]]
    /\ ret = NoRet
    /\ flt = NoFilter

Compress ==
    /\ pc = <<>>
    /\ \E out \in compress_unitigs(g, cfg.fastq_seqs) :
          ret' = [pass |-> "compress", status |-> out.status, unitigs |-> out.unitigs,
                  edges |-> out.edges, fasta |-> out.fasta]
    /\ pc' = <<"compress">>
    /\ UNCHANGED <<g, g0, cfg, flt>>

NextCompress == Compress

SpecCompress == InitCompress /\ [][NextCompress]_vars

-----------------------------------------------------------------------------
(* Claims about unitig compression, under SpecCompress *)

AfterCompress == pc = <<"compress">>

Compressed == AfterCompress /\ ret.status = "ok"

\* C11: every member of a unitig other than its first and its last has
\* in-degree 1 and out-degree 1 in the graph given to the compressor
C11_InteriorMembersSimple ==
    Compressed =>
        \A k \in DOMAIN ret.unitigs :
            \A i \in 2..(Len(ret.unitigs[k].members) - 1) :
                LET n == ret.unitigs[k].members[i].node_id
                IN indeg(g, n) = 1 /\ outdeg(g, n) = 1

\* a unitig with interior members, in a graph that has a branching node
C11_Witness ==
    /\ Compressed
    /\ \E k \in DOMAIN ret.unitigs : Len(ret.unitigs[k].members) >= 4
    /\ \E n \in DOMAIN g : outdeg(g, n) = 2
    /\ \E n \in DOMAIN g : indeg(g, n) = 2

\* a unitig of step 2: its last member has no next node
NonCircular(u) == u.members # <<>> /\ Last(u.members).edge[1] = EmptyId

RECURSIVE SumEdgeLen(_)
SumEdgeLen(members) ==
    IF members = <<>> THEN 0 ELSE Head(members).edge[2] + SumEdgeLen(Tail(members))

\* C12: the sequence of a non-circular unitig is as long as the edge_len of
\* its members but the last, plus the whole read of its last member
C12_SequenceLength ==
    Compressed =>
        \A k \in DOMAIN ret.unitigs :
            LET u == ret.unitigs[k]
            IN NonCircular(u) =>
                  Len(u.fasta_seq) =
                      SumEdgeLen(SubSeq(u.members, 1, Len(u.members) - 1))
                          + Len(cfg.fastq_seqs[Last(u.members).node_id[1]])

\* a non-circular unitig of the minus strand with three members or more and
\* edges of both lengths
C12_Witness ==
    /\ Compressed
    /\ \E k \in DOMAIN ret.unitigs :
          LET u == ret.unitigs[k]
          IN /\ NonCircular(u)
             /\ Len(u.members) >= 3
             /\ u.members[1].node_id[2] = "-"
             /\ u.members[1].edge[2] # u.members[2].edge[2]

\* scenario S6: the six reads in one cycle of proper overlaps, every
\* oriented node with in-degree 1 and out-degree 1, no edge longer than the
\* read it leaves
IsS6(G, fastq_seqs) ==
    /\ DOMAIN G = BothStrands(CompressReads)
    /\ \A n \in DOMAIN G : indeg(G, n) = 1 /\ outdeg(G, n) = 1
    /\ \A i \in 1..6 : HasEdge(G, Plus(CompressPairs[i][1]), Plus(CompressPairs[i][2]))
    /\ \A n \in DOMAIN G : G[n][1].edge_len <= Len(fastq_seqs[n[1]])

StrandNodes(strand) == {<<r, strand>> : r \in CompressReads}

\* C13: on S6 the compressor makes, for the cycle of each strand, one
\* unitig that holds each of its six nodes once, and the sequence of the
\* unitig is as long as the edge_len around the cycle
C13_S6CircularUnitig ==
    (AfterCompress /\ IsS6(g, cfg.fastq_seqs)) =>
        /\ ret.status = "ok"
        /\ \A strand \in Strands :
              LET us == {k \in DOMAIN ret.unitigs :
                            \E i \in DOMAIN ret.unitigs[k].members :
                                ret.unitigs[k].members[i].node_id[2] = strand}
              IN /\ Cardinality(us) = 1
                 /\ \A k \in us :
                       LET u == ret.unitigs[k]
                       IN /\ Len(u.members) = 6
                          /\ {u.members[i].node_id : i \in 1..6} = StrandNodes(strand)
                          /\ Len(u.fasta_seq) = SumEdgeLen(u.members)
                          /\ SumEdgeLen(u.members)
                                = SumEdgeLen([i \in 1..6 |->
                                      UnitigMember(u.members[i].node_id, EmptyId,
                                                   g[u.members[i].node_id][1].edge_len)])

C13_Witness ==
    /\ Compressed
    /\ IsS6(g, cfg.fastq_seqs)
    /\ \E n \in DOMAIN g : g[n][1].edge_len > 1
    /\ \E n \in DOMAIN g : g[n][1].edge_len = 1
    /\ Len(ret.unitigs) = 2

\* C19 as stated: a unitig whose member has an edge_len larger than its read
\* is skipped and compression goes on: the call returns its unitigs and the
\* FASTA file is written
C19_InconsistentUnitigSkipped == AfterCompress => ret.status = "ok"

\* unitig u starts at node n with the edge reference e
StartsWith(u, n, e) ==
    /\ u.members # <<>>
    /\ u.members[1].node_id = n
    /\ u.members[1].edge = <<e.target_id, e.edge_len>>

\* C22: for every node u with in-degree # 1 or out-degree # 1 and every
\* outgoing edge u -> v, the result holds a unitig whose first member is u
\* with the edge reference (v, edge_len(u, v)), whatever the order in which
\* the node map is iterated
C22_UnitigPerBranchEdge ==
    Compressed =>
        \A n \in DOMAIN g :
            (indeg(g, n) # 1 \/ outdeg(g, n) # 1) =>
                \A e \in Range(g[n]) :
                    \E k \in DOMAIN ret.unitigs : StartsWith(ret.unitigs[k], n, e)

\* a unitig of step 3: step 2 closes each of its unitigs with a member whose
\* edge reference is empty, step 3 never does
FromStep3(u) == u.members = <<>> \/ Last(u.members).edge[1] # EmptyId

\* C23: every node still unvisited when step 2 ends has in-degree 1 and
\* out-degree 1 and lies on a cycle, so that every unitig of step 3 is a
\* non-empty circular unitig: the edge of its last member points back to its
\* first member
C23_Step3UnitigsCircular ==
    Compressed =>
        \A k \in DOMAIN ret.unitigs :
            FromStep3(ret.unitigs[k]) =>
                LET ms == ret.unitigs[k].members
                IN /\ ms # <<>>
                   /\ \A i \in DOMAIN ms :
                         indeg(g, ms[i].node_id) = 1 /\ outdeg(g, ms[i].node_id) = 1
                   /\ Last(ms).edge[1] = ms[1].node_id

-----------------------------------------------------------------------------
(* SpecBuild: create_overlap_graph on up to MaxBuildRecords PAF records     *)
(* over reads of BuildReadLen bases, followed by up to MaxSteps cleanup     *)
(* passes. The records are drawn from BuildPairs (a pair in both roles, a   *)
(* chain with its shortcut, a read against itself), both strands,           *)
(* BuildSpans (query ahead of target, target ahead of query, a containment, *)
(* an internal match) and BuildMetrics; a pair may be repeated.             *)

MaxBuildRecords == 3

BuildReadLen == 4

BuildPairs ==
    {<<"R0", "R1">>, <<"R1", "R0">>, <<"R1", "R2">>, <<"R0", "R2">>, <<"R0", "R0">>}

\* <<query_start, query_end>>, <<target_start, target_end>>
BuildSpans ==
    {<< <<1, 4>>, <<0, 3>> >>, << <<0, 3>>, <<1, 4>> >>,
     << <<0, 4>>, <<1, 3>> >>, << <<1, 3>>, <<1, 3>> >>}

\* <<num_matching, alignment_block_length>>
BuildMetrics == {<<99, 100>>, <<45, 50>>}

BuildRecordsOf ==
    {Alignment(p[1], BuildReadLen, s[1][1], s[1][2], st,
               p[2], BuildReadLen, s[2][1], s[2][2], mt[1], mt[2]) :
        p \in BuildPairs, st \in Strands, s \in BuildSpans, mt \in BuildMetrics}

\* max_overhang and overhang_ratio of the command line
BuildConfig == [max_overhang |-> 1, overhang_ratio |-> <<1, 2>>]

InitBuild ==
    /\ g = OverlapGraph_new
    /\ g0 = OverlapGraph_new
    /\ pc = <<>>
    /\ \E n \in 0..MaxBuildRecords : \E records \in [1..n -> BuildRecordsOf] :
          cfg = [records |-> records, max_overhang |-> BuildConfig.max_overhang,
                 overhang_ratio |-> BuildConfig.overhang_ratio]
    /\ ret = NoRet
    /\ flt = NoFilter

Built == "records" \notin DOMAIN cfg

\* after the build main.rs holds the counters of the builder and the tunables
\* of the cleanup passes
BuiltConfig(stats) ==
    [fuzz |-> DriverConfig.fuzz, short_edge_ratio |-> DriverConfig.short_edge_ratio,
     max_bubble_length |-> DriverConfig.max_bubble_length,
     min_support_ratio |-> DriverConfig.min_support_ratio,
     max_tip_len |-> DriverConfig.max_tip_len, stats |-> stats]

CreateOverlapGraph ==
    /\ ~Built
    /\ LET out == create_overlap_graph(cfg.records, cfg.max_overhang, cfg.overhang_ratio)
       IN /\ g' = out[1]
          /\ ret' = [pass |-> "build", stats |-> out[2]]
    /\ g0' = g
    /\ cfg' = BuiltConfig(create_overlap_graph(cfg.records, cfg.max_overhang,
                                                cfg.overhang_ratio)[2])
    /\ UNCHANGED <<pc, flt>>

BuiltTransitiveReduction == Built /\ TransitiveReduction

BuiltShortEdgePruning == Built /\ ShortEdgePruning

BuiltBubbleRemoval == Built /\ BubbleRemoval

BuiltSmallComponentRemoval == Built /\ SmallComponentRemoval

BuiltTipTrimming == Built /\ TipTrimming

NextBuild ==
    \/ CreateOverlapGraph
    \/ BuiltTransitiveReduction
    \/ BuiltShortEdgePruning
    \/ BuiltBubbleRemoval
    \/ BuiltSmallComponentRemoval
    \/ BuiltTipTrimming

SpecBuild == InitBuild /\ [][NextBuild]_vars

AfterBuild == Built /\ pc = <<>>

\* C14: after graph build, for any sequence of records (repeated pairs
\* included), every node's reverse complement exists and every edge u -> v
\* has the edge rc(v) -> rc(u) with the same overlap_len and identity
C14_BuildSynchronized == AfterBuild => Synchronized(g)

\* both records are proper overlaps of the same pair of reads, with different
\* identities: the second one is a repeat, and the graph holds edges
C14_Witness ==
    /\ AfterBuild
    /\ ret.stats.nr_proper_overlaps >= 2
    /\ Cardinality(Arcs(g)) = 2
    /\ \E n \in DOMAIN g : \E e \in Range(g[n]) : e.identity = 90

\* at most one edge to each target in every edge list
NoDuplicateEdges(G) ==
    \A n \in DOMAIN G : Cardinality(Targets(G[n])) = Len(G[n])

\* C15: after graph build and after every cleanup pass, for every ordered
\* pair (u, v) of oriented nodes the graph holds at most one edge u -> v,
\* also when add_edge was called repeatedly with the same source and target
C15_NoDuplicateEdges == Built => NoDuplicateEdges(g)

\* three proper overlaps of one pair of reads were inserted (add_edge was
\* called three times for each of the two edges), and a cleanup pass has run
\* on the graph
C15_Witness ==
    /\ Built
    /\ pc # <<>>
    /\ cfg.stats.nr_proper_overlaps = 3
    /\ Cardinality(Arcs(g)) = 2

-----------------------------------------------------------------------------
(* SpecDriver: the cleanup loop of main.rs, step by step, on the graphs of  *)
(* the family of Spec. ret holds the position in the loop (at), the node    *)
(* count the loop test compares with (prev_node_count) and the iteration    *)
(* counter; pc is the list of the steps run so far. cleanup_iterations is   *)
(* the configured number of passes.                                         *)

CleanupIterations == {1, 2}

\* the order of the steps of one pass in the specification
PassOrder == <<"reduce", "dedup", "short_edges", "bubbles", "components", "tips">>

InitDriver ==
    /\ \E present \in SUBSET (1..Len(CleanupPairs)) :
       \E kind \in [present -> EdgeKinds] : \E mode \in RcModes :
          g = BuildGraph(OverlapGraph_new, KindOverlaps(CleanupPairs, present, kind, mode))
    /\ g0 = g
    /\ pc = <<>>
    /\ \E n \in CleanupIterations :
          cfg = [fuzz |-> DriverConfig.fuzz,
                 max_bubble_length |-> DriverConfig.max_bubble_length,
                 min_support_ratio |-> DriverConfig.min_support_ratio,
                 max_tip_len |-> DriverConfig.max_tip_len,
                 cleanup_iterations |-> n]
    /\ ret = [pass |-> "driver", at |-> "loop",
              prev_node_count |-> Cardinality(DOMAIN g) + 1, iteration |-> 1]
    /\ flt = NoFilter

\* a loop test that also succeeds when the node count stayed the same
DriverEnter_NonStrict ==
    /\ ret.pass = "driver" /\ ret.at = "loop"
    /\ Cardinality(DOMAIN g) <= ret.prev_node_count
    /\ ret' = [ret EXCEPT !.at = "reduce", !.prev_node_count = Cardinality(DOMAIN g)]
    /\ UNCHANGED <<g, g0, pc, cfg, flt>>

\* the loop test succeeds: the node count went down in the last iteration
DriverEnter ==
    /\ ret.pass = "driver" /\ ret.at = "loop"
    /\ Cardinality(DOMAIN g) < ret.prev_node_count
    /\ ret' = [ret EXCEPT !.at = "reduce", !.prev_node_count = Cardinality(DOMAIN g)]
    /\ UNCHANGED <<g, g0, pc, cfg, flt>>

\* the loop test fails: the driver is done
DriverExit ==
    /\ ret.pass = "driver" /\ ret.at = "loop"
    /\ ~ (Cardinality(DOMAIN g) < ret.prev_node_count)
    /\ ret' = [ret EXCEPT !.at = "done"]
    /\ UNCHANGED <<g, g0, pc, cfg, flt>>

DriverStep(at, next) ==
    /\ ret.pass = "driver" /\ ret.at = at
    /\ g0' = g
    /\ pc' = Append(pc, at)
    /\ ret' = [ret EXCEPT !.at = next,
                          !.iteration = IF next = "loop" THEN @ + 1 ELSE @]
    /\ UNCHANGED <<cfg, flt>>

DriverReduce ==
    /\ DriverStep("reduce", "bubbles")
    /\ \E out \in reduce_transitive_edges(g, cfg.fuzz) : g' = out.graph

DriverBubbles ==
    /\ DriverStep("bubbles", "components")
    /\ \E out \in remove_bubbles(g, cfg.max_bubble_length, cfg.min_support_ratio) :
          g' = out.graph

DriverComponents ==
    /\ DriverStep("components", "tips")
    /\ g' = remove_small_components(g).graph

DriverTips ==
    /\ DriverStep("tips", "loop")
    /\ g' = trim_tips(g, cfg.max_tip_len).graph

NextDriver ==
    \/ DriverEnter
    \/ DriverExit
    \/ DriverReduce
    \/ DriverBubbles
    \/ DriverComponents
    \/ DriverTips

SpecDriver == InitDriver /\ [][NextDriver]_vars

RECURSIVE Passes(_)
Passes(n) == IF n = 0 THEN <<>> ELSE PassOrder \o Passes(n - 1)

\* C18: the cleanup driver runs exactly cleanup_iterations passes whether or
\* not the graph changed, and each pass runs, in this order, transitive
\* reduction, multi-edge deduplication, short-edge pruning, bubble removal,
\* small-component removal and tip trimming
C18_FixedPasses ==
    (ret.pass = "driver" /\ ret.at = "done") => pc = Passes(cfg.cleanup_iterations)

\* the call of a pass returns, with the graph as it was or with a graph on
\* nodes the graph had
DriverReturns(at, next) ==
    /\ DriverStep(at, next)
    /\ (g' = g \/ DOMAIN g' \subseteq DOMAIN g)

\* the cleanup loop under the sequential execution of main: the loop test is
\* evaluated when control is at it, and control leaves a pass that was called
SpecDriverLive ==
    /\ SpecDriver
    /\ WF_vars(DriverEnter)
    /\ WF_vars(DriverExit)
    /\ WF_vars(DriverReturns("reduce", "bubbles"))
    /\ WF_vars(DriverReturns("bubbles", "components"))
    /\ WF_vars(DriverReturns("components", "tips"))
    /\ WF_vars(DriverReturns("tips", "loop"))

\* the loop test lets an iteration after the first start only when the node
\* count is below the count at the start of the iteration before
IterationAfterDecrease ==
    (ret.at = "loop" /\ ret'.at = "reduce") =>
        (ret.iteration = 1 \/ Cardinality(DOMAIN g) < ret.prev_node_count)

NoNodeAdded == DOMAIN g' \subseteq DOMAIN g

\* the batch of a round of trim_tips consists of nodes of the graph, so a round
\* with a batch makes the node map smaller
RoundShrinks ==
    LET batch == removed_in_this_round(g, cfg.max_tip_len)
    IN /\ batch \subseteq DOMAIN g
       /\ batch # {} =>
             Cardinality(DOMAIN remove_nodes(g, batch)) < Cardinality(DOMAIN g)

\* C30: the cleanup loop of the driver terminates for every input graph: a
\* further iteration starts only if the iteration before made the node count
\* strictly smaller, no cleanup step adds a node, every round of the loop of
\* trim_tips removes at least one node or is the last, and the driver leaves
\* the loop
C30_CleanupTerminates ==
    /\ [][IterationAfterDecrease /\ NoNodeAdded]_vars
    /\ []RoundShrinks
    /\ <>(ret.at = "done")

\* the driver has left the loop after an iteration that removed nodes
C30_Witness ==
    /\ ret.pass = "driver" /\ ret.at = "done"
    /\ ret.iteration >= 3
    /\ Len(pc) >= 8

====
